---- MODULE Spec2Model ----
(***************************************************************************)
(* News management API (users, categories, news over SQLite).              *)
(*                                                                         *)
(* A request is a slot of `reqs`.  One action executes one SQL statement   *)
(* of a handler together with the synchronous JavaScript that follows it   *)
(* up to the next awaited statement, so requests interleave exactly at     *)
(* their awaits.  The middleware chain of a route (authenticateToken,      *)
(* authorize, validateId, validate) awaits only the user lookup of         *)
(* authenticateToken and is therefore one step.                            *)
(*                                                                         *)
(* Text values that go through generateSlug are sequences of one-letter    *)
(* strings; an absent (NULL) category_id is 0; an absent text is "NULL";   *)
(* a JavaScript undefined is "undefined".                                  *)
(***************************************************************************)
EXTENDS Integers, Sequences, FiniteSets, TLC

(* ------------------------------ bounds -------------------------------- *)
MaxUserId == 3
MaxCatId == 2
MaxNewsId == 2
NReq == 2

Reqs == 1..NReq

Roles == {"user", "editor", "admin"}
Usernames == {"u1", "u2"}
Emails == {"e1", "e2"}
Statuses == {"draft", "published", "archived"}
Titles == {<<"a">>, <<"A", "!">>, <<"b">>, <<"!">>}
CatNames == {<<"a">>, <<"A">>, <<"b">>}
SlugInputs == {<<"a">>, <<"b">>}

(* ----------------------------- slugs ---------------------------------- *)
\* String.prototype.toLowerCase on the letters of the model alphabet
UpperLetters ==
  <<"A", "B", "C", "D", "E", "F", "G", "H", "I", "J", "K", "L", "M",
    "N", "O", "P", "Q", "R", "S", "T", "U", "V", "W", "X", "Y", "Z">>
LowerLetters ==
  <<"a", "b", "c", "d", "e", "f", "g", "h", "i", "j", "k", "l", "m",
    "n", "o", "p", "q", "r", "s", "t", "u", "v", "w", "x", "y", "z">>
Digits == {"0", "1", "2", "3", "4", "5", "6", "7", "8", "9"}

LowerChar(c) ==
  IF \E i \in 1..26 : UpperLetters[i] = c
  THEN LowerLetters[CHOOSE i \in 1..26 : UpperLetters[i] = c]
  ELSE c

ToLowerCase(s) == [i \in 1..Len(s) |-> LowerChar(s[i])]

IsSpace(c) == c = " "
\* \w: [A-Za-z0-9_]
IsWordChar(c) ==
  \/ \E i \in 1..26 : c = UpperLetters[i] \/ c = LowerLetters[i]
  \/ c \in Digits \/ c = "_"

RECURSIVE TrimLeft(_)
TrimLeft(s) ==
  IF s # <<>> /\ IsSpace(Head(s)) THEN TrimLeft(Tail(s)) ELSE s

RECURSIVE TrimRight(_)
TrimRight(s) ==
  IF s # <<>> /\ IsSpace(s[Len(s)]) THEN TrimRight(SubSeq(s, 1, Len(s) - 1)) ELSE s

\* String.prototype.trim
Trim(s) == TrimRight(TrimLeft(s))

\* the first replace dropped: every character is kept
RemoveSpecial_keepAll(s) == s

\* .replace(/[^\w\s-]/g, '')
RemoveSpecial(s) == SelectSeq(s, LAMBDA c : IsWordChar(c) \/ IsSpace(c) \/ c = "-")

IsSep(c) == IsSpace(c) \/ c = "_" \/ c = "-"

\* .replace(/[\s_-]+/g, '-')
RECURSIVE CollapseSeps(_)
CollapseSeps(s) ==
  IF s = <<>> THEN <<>>
  ELSE IF IsSep(Head(s))
       THEN IF Len(s) > 1 /\ IsSep(s[2])
            THEN CollapseSeps(Tail(s))
            ELSE <<"-">> \o CollapseSeps(Tail(s))
       ELSE <<Head(s)>> \o CollapseSeps(Tail(s))

RECURSIVE StripLeadHyphens(_)
StripLeadHyphens(s) ==
  IF s # <<>> /\ Head(s) = "-" THEN StripLeadHyphens(Tail(s)) ELSE s

RECURSIVE StripTrailHyphens(_)
StripTrailHyphens(s) ==
  IF s # <<>> /\ s[Len(s)] = "-"
  THEN StripTrailHyphens(SubSeq(s, 1, Len(s) - 1)) ELSE s

\* .replace(/^-+|-+$/g, '')
StripHyphens(s) == StripTrailHyphens(StripLeadHyphens(s))

\* .substring(0, n)
Substring0(s, n) == SubSeq(s, 1, IF Len(s) < n THEN Len(s) ELSE n)

SlugMaxLen == 500

CategoryGenerateSlug(text) ==
  StripHyphens(CollapseSeps(RemoveSpecial(Trim(ToLowerCase(text)))))

\* News.generateSlug with the limit of its substring call as a parameter
NewsGenerateSlug_max(title, max) ==
  Substring0(StripHyphens(CollapseSeps(RemoveSpecial(Trim(ToLowerCase(title))))), max)

NewsGenerateSlug(title) == NewsGenerateSlug_max(title, SlugMaxLen)

(* ------------------------------ state --------------------------------- *)
VARIABLES users, categories, news, nextUserId, nextCatId, nextNewsId, reqs

tables == <<users, categories, news>>
vars == <<users, categories, news, nextUserId, nextCatId, nextNewsId, reqs>>

\* an object with no own keys
EmptyObj == [k \in {} |-> "undefined"]

\* a key of an object literal, left out when the client did not send it
OptStr(k, v) == IF v = "absent" THEN EmptyObj ELSE [x \in {k} |-> v]
OptSeq(k, v) == IF v = <<>> THEN EmptyObj ELSE [x \in {k} |-> v]
OptBool(k, v) == IF v = "absent" THEN EmptyObj ELSE [x \in {k} |-> (v = "true")]
OptInt(k, v) == IF v = -1 THEN EmptyObj ELSE [x \in {k} |-> v]

Has(obj, k) == k \in DOMAIN obj

\* obj with key k removed (the delete operator, or a key stripped by Joi)
Without(obj, ks) == [k \in (DOMAIN obj) \ ks |-> obj[k]]

NoUser == [id |-> 0, username |-> "NULL", email |-> "NULL", role |-> "none"]
NoRow == [none |-> TRUE]
NoToken == [userId |-> 0, kind |-> "none", role |-> "none"]

\* a request slot: the route (op), the statement it waits for (pc), the
\* token and :id it came with, req.user, req.body, the row its controller
\* read last (found) and, once answered, the response (status, msg, data);
\* a list request keeps what the caller sent in query and the options
\* object handed to the model in body
Idle ==
  [op |-> "none", pc |-> "idle", tok |-> NoToken, user |-> NoUser, id |-> 0,
   query |-> EmptyObj, body |-> EmptyObj, found |-> NoRow, status |-> 0, msg |-> "none",
   data |-> NoRow]

Done(s, status, msg) ==
  [s EXCEPT !.pc = "done", !.status = status, !.msg = msg, !.found = NoRow]

(* --------------------------- storage layer ---------------------------- *)
\* the users table without its UNIQUE indexes
UsersNotNullOnly(tbl, id, row) == row.username # "NULL" /\ row.email # "NULL"

\* users.username and users.email are UNIQUE NOT NULL
UsersConstraintOk(tbl, id, row) ==
  /\ row.username # "NULL" /\ row.email # "NULL"
  /\ \A o \in DOMAIN tbl :
       o # id => tbl[o].username # row.username /\ tbl[o].email # row.email

\* categories.name and categories.slug are UNIQUE NOT NULL
CategoriesConstraintOk(tbl, id, row) ==
  \A o \in DOMAIN tbl :
    o # id => tbl[o].name # row.name /\ tbl[o].slug # row.slug

\* the news table with its UNIQUE index and no foreign keys
NewsSlugUniqueOnly(tbl, id, row) == \A o \in DOMAIN tbl : o # id => tbl[o].slug # row.slug

\* news.slug is UNIQUE NOT NULL; category_id and author_id are foreign keys
NewsConstraintOk(tbl, id, row) ==
  /\ \A o \in DOMAIN tbl : o # id => tbl[o].slug # row.slug
  /\ row.author_id \in DOMAIN users
  /\ row.category_id = 0 \/ row.category_id \in DOMAIN categories

\* a bound parameter: node-sqlite3 leaves an undefined parameter unbound,
\* which SQLite reads as NULL
Bind(v) == IF v = "undefined" THEN "NULL" ELSE v

Extend(tbl, id, row) == [i \in DOMAIN tbl \cup {id} |-> IF i = id THEN row ELSE tbl[i]]
Remove(tbl, ids) == [i \in DOMAIN tbl \ ids |-> tbl[i]]

\* the row INSERT INTO users (...) builds; is_active takes its column default
NewUserRow(data) ==
  [username |-> Bind(data.username), email |-> Bind(data.email),
   first_name |-> IF Has(data, "first_name") THEN Bind(data.first_name) ELSE "NULL",
   password |-> "hash", role |-> IF Has(data, "role") THEN data.role ELSE "user",
   is_active |-> TRUE, created_at |-> "t0"]

UserAllowedFields == {"username", "email", "first_name", "last_name", "role", "is_active"}
UserColumns ==
  {"username", "email", "first_name", "password", "role", "is_active", "created_at"}

\* an UPDATE that sets every column updateData names
UpdatedUserRow_anyColumn(row, updateData) ==
  [c \in UserColumns |-> IF c \in DOMAIN updateData THEN updateData[c] ELSE row[c]]

\* the row UPDATE users SET <allow-listed keys of updateData> leaves
UpdatedUserRow(row, updateData) ==
  [c \in UserColumns |->
     IF c \in DOMAIN updateData /\ c \in UserAllowedFields
     THEN IF c \in {"username", "email", "first_name"} THEN Bind(updateData[c])
          ELSE updateData[c]
     ELSE row[c]]

\* a selected row: its id and the named columns
RowOf(id, row, cols) == [id |-> id] @@ [c \in cols |-> row[c]]

\* SELECT * FROM users WHERE id = ?
UserFindById_allColumns(id) ==
  IF id \in DOMAIN users THEN RowOf(id, users[id], UserColumns) ELSE NoRow

\* User.findById: the SELECT names every column but password
UserFindById(id) ==
  IF id \in DOMAIN users
  THEN RowOf(id, users[id],
             {"username", "email", "first_name", "role", "is_active", "created_at"})
  ELSE NoRow

\* User.checkExists(email, username, excludeId)
UserCheckExists(email, username, excludeId) ==
  \E o \in DOMAIN users :
    /\ users[o].email = email \/ users[o].username = username
    /\ excludeId # 0 => o # excludeId

(* ----------------------------- middleware ------------------------------ *)
\* the role login signed into a token for account u: the stored role when
\* the token is fresh, any role the account may have had when it is stale
SignedRoles(in, u) ==
  IF in.stale THEN Roles
  ELSE {IF u \in DOMAIN users THEN users[u].role ELSE "user"}

\* tokens a client can present: none, or one naming a user id that login
\* has signed a token for (every id ever created), possibly expired or
\* with a bad signature; the payload carries userId and role
Tokens(in) ==
  {t \in {NoToken} : "none" \in in.kinds} \cup
  UNION {{[userId |-> u, kind |-> k, role |-> ro] :
            k \in in.kinds \ {"none"}, ro \in SignedRoles(in, u)} :
         u \in 1..(nextUserId - 1)}

TokenKinds == {"none", "good", "expired", "forged"}

Pass(user, body) == [status |-> 0, msg |-> "next", user |-> user, body |-> body]
Reject(status, msg) == [status |-> status, msg |-> msg, user |-> NoUser, body |-> EmptyObj]

\* authenticateToken without the lookup of the live row: the token's
\* signature and expiry alone decide
authenticateToken_tokenOnly(tok) ==
  IF tok.kind = "none" THEN Reject(401, "Access token is required")
  ELSE IF tok.kind = "forged" THEN Reject(401, "Invalid token")
  ELSE IF tok.kind = "expired" THEN Reject(401, "Token expired")
  ELSE Pass([id |-> tok.userId,
             username |-> IF tok.userId \in DOMAIN users THEN users[tok.userId].username ELSE "NULL",
             email |-> IF tok.userId \in DOMAIN users THEN users[tok.userId].email ELSE "NULL",
             role |-> IF tok.userId \in DOMAIN users THEN users[tok.userId].role ELSE "user"],
            EmptyObj)

\* authenticateToken with req.user.role taken from the token's payload
authenticateToken_tokenRole(tok) ==
  IF tok.kind = "none" THEN Reject(401, "Access token is required")
  ELSE IF tok.kind = "forged" THEN Reject(401, "Invalid token")
  ELSE IF tok.kind = "expired" THEN Reject(401, "Token expired")
  ELSE IF tok.userId \notin DOMAIN users THEN Reject(401, "Invalid token - user not found")
  ELSE IF ~users[tok.userId].is_active THEN Reject(401, "Account is deactivated")
  ELSE Pass([id |-> tok.userId, username |-> users[tok.userId].username,
             email |-> users[tok.userId].email, role |-> tok.role], EmptyObj)

authenticateToken(tok) ==
  IF tok.kind = "none" THEN Reject(401, "Access token is required")
  ELSE IF tok.kind = "forged" THEN Reject(401, "Invalid token")
  ELSE IF tok.kind = "expired" THEN Reject(401, "Token expired")
  ELSE IF tok.userId \notin DOMAIN users THEN Reject(401, "Invalid token - user not found")
  ELSE IF ~users[tok.userId].is_active THEN Reject(401, "Account is deactivated")
  ELSE Pass([id |-> tok.userId, username |-> users[tok.userId].username,
             email |-> users[tok.userId].email, role |-> users[tok.userId].role], EmptyObj)

\* authorize without the role list: any authenticated caller passes
authorize_anyRole(roles, user) ==
  IF user = NoUser THEN Reject(401, "Authentication required") ELSE Pass(user, EmptyObj)

authorize(roles, user) ==
  IF user = NoUser THEN Reject(401, "Authentication required")
  ELSE IF user.role \notin roles THEN Reject(403, "Access denied - insufficient permissions")
  ELSE Pass(user, EmptyObj)

\* optionalAuth with authenticateToken's answers: a request whose token
\* does not name a live account is rejected
optionalAuth_required(tok, dbError) ==
  LET a == authenticateToken(tok)
  IN IF tok.kind = "good" /\ dbError
     THEN [status |-> 500, nexts |-> 0, user |-> NoUser]
     ELSE [status |-> a.status, nexts |-> IF a.status = 0 THEN 1 ELSE 0, user |-> a.user]

\* optionalAuth: with a token, jwt.verify throws on a malformed, forged or
\* expired one and getOne rejects on a store error (dbError); the catch
\* swallows both. req.user is set when the SELECT returned an active row,
\* then next() is called; no path sends a response (status 0)
optionalAuth(tok, dbError) ==
  LET threw == tok.kind # "none" /\ (tok.kind \in {"forged", "expired"} \/ dbError)
      found == /\ tok.kind # "none" /\ ~threw
               /\ tok.userId \in DOMAIN users /\ users[tok.userId].is_active
  IN [status |-> 0, nexts |-> 1,
      user |-> IF found
               THEN [id |-> tok.userId, username |-> users[tok.userId].username,
                     email |-> users[tok.userId].email, role |-> users[tok.userId].role]
               ELSE NoUser]

\* validateId: parseInt(req.params.id) is NaN or < 1; a non-numeric
\* parameter is the input 0
validateId(id) ==
  IF id < 1 THEN Reject(400, "Invalid ID parameter") ELSE Pass(NoUser, EmptyObj)

\* what parseInt makes of text that does not start with a number
NaN == -1000000

\* parseInt(v) of a query-string value: an optional sign and the leading
\* decimal digits
ParseInt(v) ==
  LET neg == v # <<>> /\ Head(v) = "-"
      t == IF neg THEN Tail(v) ELSE v
      digit(c) == CASE c = "0" -> 0 [] c = "1" -> 1 [] c = "2" -> 2 [] c = "3" -> 3
                    [] c = "4" -> 4 [] c = "5" -> 5 [] c = "6" -> 6 [] c = "7" -> 7
                    [] c = "8" -> 8 [] c = "9" -> 9 [] OTHER -> NaN
      val[i \in 0..Len(t)] ==
        IF i = 0 THEN 0
        ELSE IF val[i - 1] = NaN \/ digit(t[i]) = NaN THEN NaN
        ELSE val[i - 1] * 10 + digit(t[i])
      \* the longest prefix of t made of digits
      n == CHOOSE k \in 0..Len(t) :
             /\ \A i \in 1..k : digit(t[i]) # NaN
             /\ k < Len(t) => digit(t[k + 1]) = NaN
  IN IF n = 0 THEN NaN ELSE (IF neg THEN -1 ELSE 1) * val[n]

\* Joi.number().integer() on a query-string value: the whole text is a
\* decimal integer
JoiInteger(v) ==
  LET t == IF v # <<>> /\ Head(v) = "-" THEN Tail(v) ELSE v
  IN t # <<>> /\ \A i \in 1..Len(t) : t[i] \in {"0", "1", "2", "3", "4", "5", "6", "7", "8", "9"}

\* what the Joi type of key k accepts
ValidValue(k, v) ==
  CASE k = "username" -> v \in Usernames
    [] k = "email" -> v \in Emails
    [] k = "password" -> v = "pw"
    [] k = "role" -> v \in Roles
    [] k = "is_active" -> v \in BOOLEAN
    [] k = "status" -> v \in Statuses
    [] k = "category_id" -> v >= 1
    [] k = "order" -> v \in {"asc", "desc"}
    [] k = "page" -> JoiInteger(v) /\ ParseInt(v) >= 1
    [] k = "limit" -> JoiInteger(v) /\ ParseInt(v) >= 1 /\ ParseInt(v) <= 100
    [] k \in {"search", "q"} -> Len(v) >= 1
    [] k \in {"title", "name", "slug"} -> Len(v) >= 1
    [] OTHER -> TRUE

userSchemas_register ==
  [keys |-> {"username", "email", "password", "first_name", "last_name"},
   required |-> {"username", "email", "password"}]
userSchemas_update ==
  [keys |-> {"username", "email", "first_name", "last_name", "role", "is_active"},
   required |-> {}]
userSchemas_resetPassword ==
  [keys |-> {"new_password"}, required |-> {"new_password"}]
categorySchemas_create ==
  [keys |-> {"name", "description", "slug"}, required |-> {"name"}]
categorySchemas_update ==
  [keys |-> {"name", "description", "slug", "is_active"}, required |-> {}]
newsSchemas_create ==
  [keys |-> {"title", "content", "summary", "slug", "featured_image", "status", "category_id"},
   required |-> {"title", "content"}]
newsSchemas_update ==
  [keys |-> {"title", "content", "summary", "slug", "featured_image", "status", "category_id"},
   required |-> {}]
combinedQuerySchemas_userList ==
  [keys |-> {"page", "limit", "sort", "order", "role", "is_active", "search"}, required |-> {}]
combinedQuerySchemas_newsList ==
  [keys |-> {"page", "limit", "sort", "order", "status", "category_id", "author_id", "search",
             "q"},
   required |-> {}]
combinedQuerySchemas_categoryList ==
  [keys |-> {"page", "limit", "sort", "order", "is_active", "search"}, required |-> {}]
NoSchema == [keys |-> {"*"}, required |-> {}]

\* validate(schema): unknown keys are stripped, known keys are checked
validate(schema, body) ==
  IF schema = NoSchema THEN Pass(NoUser, body)
  ELSE LET value == [k \in DOMAIN body \cap schema.keys |-> body[k]]
       IN IF /\ schema.required \subseteq DOMAIN value
             /\ \A k \in DOMAIN value : ValidValue(k, value[k])
          THEN Pass(NoUser, value)
          ELSE Reject(400, "Validation error")

\* a route: its middlewares in the order auth, authorize, validateId, validate
Route(auth, roles, vid, schema) ==
  [auth |-> auth, roles |-> roles, vid |-> vid, schema |-> schema]

\* the middlewares in front of validate; req.user stays attached to a
\* request that a later middleware rejects
Pipeline(route, tok, id) ==
  LET a == IF route.auth THEN authenticateToken(tok) ELSE Pass(NoUser, EmptyObj)
      z == IF route.roles # {} THEN authorize(route.roles, a.user) ELSE a
      i == IF route.vid THEN validateId(id) ELSE a
  IN IF a.status # 0 THEN a
     ELSE IF z.status # 0 THEN [z EXCEPT !.user = a.user]
     ELSE IF i.status # 0 THEN [i EXCEPT !.user = a.user]
     ELSE a

\* the requests of route `op` as their middlewares leave them: answered by
\* the one that rejects, or at the controller's entry with the validated body
Admit(op, route, toks, ids, bodies) ==
  LET slot(tok, id) ==
        [Idle EXCEPT !.op = op, !.tok = tok, !.id = id, !.user = Pipeline(route, tok, id).user]
      rejected == {<<tok, id>> \in toks \X ids : Pipeline(route, tok, id).status # 0}
  IN {Done(slot(x[1], x[2]), Pipeline(route, x[1], x[2]).status, Pipeline(route, x[1], x[2]).msg) :
        x \in rejected}
     \cup
     {IF validate(route.schema, y[2]).status # 0
      THEN Done(slot(y[1][1], y[1][2]), 400, "Validation error")
      ELSE [slot(y[1][1], y[1][2]) EXCEPT !.pc = "enter",
                                           !.body = validate(route.schema, y[2]).body] :
        y \in ((toks \X ids) \ rejected) \X bodies}

\* slot r takes the request s
Deliver(r, s) ==
  /\ reqs' = [reqs EXCEPT ![r] = s]
  /\ UNCHANGED <<users, categories, news, nextUserId, nextCatId, nextNewsId>>

\* the response has left: the slot is free for the next request
Forget(r) ==
  /\ reqs[r].pc = "done"
  /\ reqs' = [reqs EXCEPT ![r] = Idle]
  /\ UNCHANGED <<users, categories, news, nextUserId, nextCatId, nextNewsId>>

(* ------------------------- request payloads --------------------------- *)
RegisterBodies ==
  {OptStr("username", u) @@ OptStr("email", e) @@ OptStr("password", p) @@ OptStr("role", ro) :
     u \in {"u2", "absent"}, e \in Emails,
     p \in {"pw", "absent"}, ro \in {"admin", "absent"}}

UserUpdateBodies ==
  {OptStr("username", u) @@ OptStr("email", e) @@ OptStr("role", ro) @@ OptBool("is_active", ia) :
     u \in {"u2", "absent"}, e \in {"e2", "absent"},
     ro \in {"admin", "user", "bogus", "absent"}, ia \in {"false", "absent"}}

ProfileBodies ==
  {OptStr("username", u) @@ OptStr("email", e) @@ OptStr("role", ro) @@ OptBool("is_active", ia) :
     u \in {"u2", "absent"}, e \in Emails \cup {"absent"},
     ro \in {"admin", "absent"}, ia \in {"false", "absent"}}

\* a :id path parameter; 0 is one that validateId rejects
UserIds == 0..MaxUserId

(* ------------------------------ users --------------------------------- *)
Get(obj, k) == IF Has(obj, k) THEN obj[k] ELSE "undefined"

\* requests of slots other than r that have still to insert a user
PendingUserInserts(r) ==
  Cardinality({q \in Reqs \ {r} : reqs[q].op \in {"register", "createUser"} /\ reqs[q].pc \in {"check", "insert"}})

CanCreateUser(r) == nextUserId + PendingUserInserts(r) <= MaxUserId

\* POST /api/auth/register: validate(userSchemas.register), then
\* AuthController.register up to the result of User.checkExists
\* register without the User.checkExists call
Enter_register_noCheck(s, body) ==
  [s EXCEPT !.pc = "insert", !.body = [username |-> body.username, email |-> body.email]]

Enter_register(s, body) ==
  IF UserCheckExists(body.email, body.username, 0)
  THEN Done(s, 400, "User already exists")
  ELSE [s EXCEPT !.pc = "insert", !.body = [username |-> body.username, email |-> body.email]]

Recv_register(r, in) ==
  /\ reqs[r].pc = "idle"
  /\ CanCreateUser(r)
  /\ \E s \in Admit("register", Route(FALSE, {}, FALSE, userSchemas_register),
                    {NoToken}, {0}, in.register) :
       Deliver(r, IF s.pc = "done" THEN s ELSE Enter_register(s, s.body))

\* User.create: INSERT INTO users; a constraint error is caught by the
\* controller's catch and answered 500
InsertUser(r, failMsg) ==
  LET s == reqs[r]
      row == NewUserRow(s.body)
  IN /\ s.pc = "insert"
     /\ IF UsersConstraintOk(users, 0, row)
        THEN /\ users' = Extend(users, nextUserId, row)
             /\ nextUserId' = nextUserId + 1
             /\ reqs' = [reqs EXCEPT ![r] = [s EXCEPT !.pc = "reread", !.id = nextUserId]]
        ELSE /\ reqs' = [reqs EXCEPT ![r] = Done(s, 500, failMsg)]
             /\ UNCHANGED <<users, nextUserId>>
     /\ UNCHANGED <<categories, news, nextCatId, nextNewsId>>

\* return await this.findById(result.id), then the controller reads
\* user.email and answers
RereadUser(r, okStatus, okMsg, failMsg) ==
  LET s == reqs[r]
  IN /\ s.pc = "reread"
     /\ reqs' = [reqs EXCEPT ![r] =
          IF s.id \in DOMAIN users
          THEN [Done(s, okStatus, okMsg) EXCEPT !.data = UserFindById(s.id)]
          ELSE Done(s, 500, failMsg)]
     /\ UNCHANGED <<users, categories, news, nextUserId, nextCatId, nextNewsId>>

Register_insert(r) == reqs[r].op = "register" /\ InsertUser(r, "Registration failed")
Register_reread(r) ==
  reqs[r].op = "register" /\ RereadUser(r, 201, "User registered successfully", "Registration failed")

\* POST /api/users: authenticateToken, authorize('admin'),
\* validate(userSchemas.register); role is not a key of that schema
Enter_createUser(s, body) == [s EXCEPT !.pc = "check", !.body = body]

Recv_createUser(r, in) ==
  /\ reqs[r].pc = "idle"
  /\ CanCreateUser(r)
  /\ \E s \in Admit("createUser", Route(TRUE, {"admin"}, FALSE, userSchemas_register),
                    Tokens(in), {0}, in.register) :
       Deliver(r, IF s.pc = "done" THEN s ELSE Enter_createUser(s, s.body))

CreateUser_check(r) ==
  LET s == reqs[r]
  IN /\ s.op = "createUser" /\ s.pc = "check"
     /\ reqs' = [reqs EXCEPT ![r] =
          IF UserCheckExists(s.body.email, s.body.username, 0)
          THEN Done(s, 400, "User already exists")
          ELSE [s EXCEPT !.pc = "insert",
                         !.body = [username |-> s.body.username, email |-> s.body.email,
                                   role |-> IF Has(s.body, "role") THEN s.body.role ELSE "user"]]]
     /\ UNCHANGED <<users, categories, news, nextUserId, nextCatId, nextNewsId>>

CreateUser_insert(r) == reqs[r].op = "createUser" /\ InsertUser(r, "Failed to create user")
CreateUser_reread(r) ==
  reqs[r].op = "createUser" /\ RereadUser(r, 201, "User created successfully", "Failed to create user")

\* UPDATE users SET ... WHERE id = ?: no row, a constraint error, or the
\* row rewritten
UpdateUserStmt(r, updateData, failMsg) ==
  LET s == reqs[r]
  IN IF s.id \notin DOMAIN users
     THEN /\ reqs' = [reqs EXCEPT ![r] = [s EXCEPT !.pc = "reread"]]
          /\ UNCHANGED users
     ELSE LET row == UpdatedUserRow(users[s.id], updateData)
          IN IF UsersConstraintOk(users, s.id, row)
             THEN /\ users' = [users EXCEPT ![s.id] = row]
                  /\ reqs' = [reqs EXCEPT ![r] = [s EXCEPT !.pc = "reread"]]
             ELSE /\ reqs' = [reqs EXCEPT ![r] = Done(s, 500, failMsg)]
                  /\ UNCHANGED users

\* an updateById that issues its UPDATE whatever keys updateData has
UserUpdateById_noGuard(s, updateData, failMsg) ==
  [s EXCEPT !.pc = "update", !.body = updateData]

\* User.updateById up to its statement: throws when no key of updateData is
\* allow-listed, else issues the UPDATE
UserUpdateById(s, updateData, failMsg) ==
  IF DOMAIN updateData \cap UserAllowedFields = {}
  THEN Done(s, 500, failMsg)
  ELSE [s EXCEPT !.pc = "update", !.body = updateData]

\* updateUser without its role guard
UpdateUser_keepRole(s) == s.body

\* UserController.updateUser after the uniqueness check: a caller who is
\* not admin loses the role key of an update of their own row
UpdateUser_guardRole(s) ==
  IF s.user.id = s.id /\ Has(s.body, "role") /\ s.user.role # "admin"
  THEN Without(s.body, {"role"})
  ELSE s.body

\* PUT /api/users/:id: authenticateToken, validateId,
\* validate(userSchemas.update)
Enter_updateUser(s, body) == [s EXCEPT !.pc = "find", !.body = body]

Recv_updateUser(r, in) ==
  /\ reqs[r].pc = "idle"
  /\ \E s \in Admit("updateUser", Route(TRUE, {}, TRUE, userSchemas_update),
                    Tokens(in), in.userIds, in.updateUser) :
       Deliver(r, IF s.pc = "done" THEN s ELSE Enter_updateUser(s, s.body))

UpdateUser_find(r) ==
  LET s == reqs[r]
  IN /\ s.op = "updateUser" /\ s.pc = "find"
     /\ reqs' = [reqs EXCEPT ![r] =
          IF s.id \notin DOMAIN users THEN Done(s, 404, "User not found")
          ELSE IF Has(s.body, "email") \/ Has(s.body, "username")
               THEN [s EXCEPT !.pc = "check",
                              !.found = [email |-> users[s.id].email,
                                         username |-> users[s.id].username]]
               ELSE UserUpdateById(s, UpdateUser_guardRole(s), "Failed to update user")]
     /\ UNCHANGED <<users, categories, news, nextUserId, nextCatId, nextNewsId>>

UpdateUser_check(r) ==
  LET s == reqs[r]
      email == IF Has(s.body, "email") THEN s.body.email ELSE s.found.email
      username == IF Has(s.body, "username") THEN s.body.username ELSE s.found.username
  IN /\ s.op = "updateUser" /\ s.pc = "check"
     /\ reqs' = [reqs EXCEPT ![r] =
          IF UserCheckExists(email, username, s.id)
          THEN Done(s, 400, "Another user already exists")
          ELSE UserUpdateById([s EXCEPT !.found = NoRow], UpdateUser_guardRole(s),
                              "Failed to update user")]
     /\ UNCHANGED <<users, categories, news, nextUserId, nextCatId, nextNewsId>>

UpdateUser_update(r) ==
  /\ reqs[r].op \in {"updateUser", "User.updateById"} /\ reqs[r].pc = "update"
  /\ UpdateUserStmt(r, reqs[r].body, "Failed to update user")
  /\ UNCHANGED <<categories, news, nextUserId, nextCatId, nextNewsId>>

UpdateUser_reread(r) ==
  /\ reqs[r].op \in {"updateUser", "User.updateById"}
  /\ RereadUser(r, 200, "User updated successfully", "Failed to update user")

\* the object literal { username, email, first_name, last_name } that
\* AuthController.updateProfile hands to User.updateById: all four keys,
\* undefined where the body has none
ProfileUpdateData(body) ==
  [k \in {"username", "email", "first_name", "last_name"} |-> Get(body, k)]

\* AuthController.updateProfile up to its first statement
Enter_updateProfile(s, body) ==
  LET t == [s EXCEPT !.id = s.user.id]
  IN IF Has(body, "email") \/ Has(body, "username")
     THEN [t EXCEPT !.pc = "check", !.body = ProfileUpdateData(body)]
     ELSE UserUpdateById(t, ProfileUpdateData(body), "Failed to update profile")

Recv_updateProfile(r, in) ==
  /\ reqs[r].pc = "idle"
  /\ \E s \in Admit("updateProfile", Route(TRUE, {}, FALSE, NoSchema),
                    Tokens(in), {0}, in.updateProfile) :
       Deliver(r, IF s.pc = "done" THEN s ELSE Enter_updateProfile(s, s.body))

UpdateProfile_check(r) ==
  LET s == reqs[r]
      email == IF s.body.email # "undefined" THEN s.body.email ELSE s.user.email
      username == IF s.body.username # "undefined" THEN s.body.username ELSE s.user.username
  IN /\ s.op = "updateProfile" /\ s.pc = "check"
     /\ reqs' = [reqs EXCEPT ![r] =
          IF UserCheckExists(email, username, s.id)
          THEN Done(s, 400, "Another user already exists")
          ELSE UserUpdateById(s, s.body, "Failed to update profile")]
     /\ UNCHANGED <<users, categories, news, nextUserId, nextCatId, nextNewsId>>

UpdateProfile_update(r) ==
  /\ reqs[r].op = "updateProfile" /\ reqs[r].pc = "update"
  /\ UpdateUserStmt(r, reqs[r].body, "Failed to update profile")
  /\ UNCHANGED <<categories, news, nextUserId, nextCatId, nextNewsId>>

UpdateProfile_reread(r) ==
  reqs[r].op = "updateProfile"
  /\ RereadUser(r, 200, "Profile updated successfully", "Failed to update profile")

\* DELETE /api/users/:id: authenticateToken, authorize('admin'),
\* validateId, then UserController.deleteUser up to its first statement
\* a controller whose first statement is its lookup by id
Enter_find(s, body) == [s EXCEPT !.pc = "find", !.body = body]

\* deleteUser without its own-account check
Enter_deleteUser_anyTarget(s, body) == [s EXCEPT !.pc = "find"]

Enter_deleteUser(s, body) ==
  IF s.user.id = s.id THEN Done(s, 400, "You cannot delete your own account")
  ELSE [s EXCEPT !.pc = "find"]

Recv_deleteUser(r, in) ==
  /\ reqs[r].pc = "idle"
  /\ \E s \in Admit("deleteUser", Route(TRUE, {"admin"}, TRUE, NoSchema),
                    Tokens(in), in.userIds, {EmptyObj}) :
       Deliver(r, IF s.pc = "done" THEN s ELSE Enter_deleteUser(s, s.body))

DeleteUser_find(r) ==
  LET s == reqs[r]
  IN /\ s.op = "deleteUser" /\ s.pc = "find"
     /\ reqs' = [reqs EXCEPT ![r] =
          IF s.id \notin DOMAIN users THEN Done(s, 404, "User not found")
          ELSE [s EXCEPT !.pc = "delete"]]
     /\ UNCHANGED <<users, categories, news, nextUserId, nextCatId, nextNewsId>>

\* DELETE FROM users WHERE id = ?; news.author_id is ON DELETE CASCADE
DeleteUser_delete(r) ==
  LET s == reqs[r]
  IN /\ s.op = "deleteUser" /\ s.pc = "delete"
     /\ users' = Remove(users, {s.id})
     /\ news' = Remove(news, {n \in DOMAIN news : news[n].author_id = s.id /\ s.id \in DOMAIN users})
     /\ reqs' = [reqs EXCEPT ![r] =
          IF s.id \in DOMAIN users THEN Done(s, 200, "User deleted successfully")
          ELSE Done(s, 400, "Failed to delete user")]
     /\ UNCHANGED <<categories, nextUserId, nextCatId, nextNewsId>>

\* PATCH /api/users/:id/toggle-status: authenticateToken,
\* authorize('admin'), validateId, then UserController.toggleUserStatus
Enter_toggleUserStatus(s, body) ==
  IF s.user.id = s.id THEN Done(s, 400, "You cannot change your own status")
  ELSE [s EXCEPT !.pc = "find"]

Recv_toggleUserStatus(r, in) ==
  /\ reqs[r].pc = "idle"
  /\ \E s \in Admit("toggleUserStatus", Route(TRUE, {"admin"}, TRUE, NoSchema),
                    Tokens(in), in.userIds, {EmptyObj}) :
       Deliver(r, IF s.pc = "done" THEN s ELSE Enter_toggleUserStatus(s, s.body))

ToggleUserStatus_find(r) ==
  LET s == reqs[r]
  IN /\ s.op = "toggleUserStatus" /\ s.pc = "find"
     /\ reqs' = [reqs EXCEPT ![r] =
          IF s.id \notin DOMAIN users THEN Done(s, 404, "User not found")
          ELSE [s EXCEPT !.pc = "update", !.body = [is_active |-> ~users[s.id].is_active]]]
     /\ UNCHANGED <<users, categories, news, nextUserId, nextCatId, nextNewsId>>

ToggleUserStatus_update(r) ==
  /\ reqs[r].op = "toggleUserStatus" /\ reqs[r].pc = "update"
  /\ UpdateUserStmt(r, reqs[r].body, "Failed to change user status")
  /\ UNCHANGED <<categories, news, nextUserId, nextCatId, nextNewsId>>

ToggleUserStatus_reread(r) ==
  reqs[r].op = "toggleUserStatus"
  /\ RereadUser(r, 200, "User status changed", "Failed to change user status")

\* PUT /api/users/:id/reset-password: authenticateToken,
\* authorize('admin'), validateId, validate(userSchemas.resetPassword)
Recv_resetPassword(r, in) ==
  /\ reqs[r].pc = "idle"
  /\ \E s \in Admit("resetPassword", Route(TRUE, {"admin"}, TRUE, userSchemas_resetPassword),
                    Tokens(in), in.userIds, {OptStr("new_password", pw) : pw \in {"pw", "absent"}}) :
       Deliver(r, IF s.pc = "done" THEN s ELSE Enter_find(s, s.body))

ResetPassword_find(r) ==
  LET s == reqs[r]
  IN /\ s.op = "resetPassword" /\ s.pc = "find"
     /\ reqs' = [reqs EXCEPT ![r] =
          IF s.id \notin DOMAIN users THEN Done(s, 404, "User not found")
          ELSE [s EXCEPT !.pc = "update"]]
     /\ UNCHANGED <<users, categories, news, nextUserId, nextCatId, nextNewsId>>

\* User.changePassword: UPDATE users SET password = ?; the password column
\* is not part of the modelled row
ResetPassword_update(r) ==
  LET s == reqs[r]
  IN /\ s.op = "resetPassword" /\ s.pc = "update"
     /\ reqs' = [reqs EXCEPT ![r] = Done(s, 200, "Password reset successfully")]
     /\ UNCHANGED <<users, categories, news, nextUserId, nextCatId, nextNewsId>>

\* GET /api/users/:id: authenticateToken, authorize('admin', 'editor'),
\* validateId
Recv_getUserById(r, in) ==
  /\ reqs[r].pc = "idle"
  /\ \E s \in Admit("getUserById", Route(TRUE, {"admin", "editor"}, TRUE, NoSchema),
                    Tokens(in), in.userIds, {EmptyObj}) :
       Deliver(r, IF s.pc = "done" THEN s ELSE Enter_find(s, s.body))

GetUserById_find(r) ==
  LET s == reqs[r]
  IN /\ s.op = "getUserById" /\ s.pc = "find"
     /\ reqs' = [reqs EXCEPT ![r] =
          IF s.id \in DOMAIN users THEN Done(s, 200, "success") ELSE Done(s, 404, "User not found")]
     /\ UNCHANGED <<users, categories, news, nextUserId, nextCatId, nextNewsId>>

(* ---------------------------- categories ------------------------------ *)
CategoryBodies ==
  {OptSeq("name", n) @@ OptSeq("slug", sl) @@ OptBool("is_active", ia) :
     n \in CatNames \cup {<<>>}, sl \in SlugInputs \cup {<<>>}, ia \in {"false", "absent"}}

CatIds == 0..MaxCatId

\* a JavaScript string used as a condition
Truthy(str) == str # <<>>

CategoryAllowedFields == {"name", "description", "slug", "is_active"}
CategoryColumns == {"name", "slug", "is_active", "created_at"}

UpdatedCategoryRow(row, updateData) ==
  [c \in CategoryColumns |->
     IF c \in DOMAIN updateData /\ c \in CategoryAllowedFields THEN updateData[c] ELSE row[c]]

\* Category.checkExists(name, slug, excludeId)
CategoryCheckExists(name, slug, excludeId) ==
  \E o \in DOMAIN categories :
    /\ categories[o].name = name \/ categories[o].slug = slug
    /\ excludeId # 0 => o # excludeId

PendingCatInserts(r) ==
  Cardinality({q \in Reqs \ {r} : reqs[q].op = "createCategory" /\ reqs[q].pc \in {"check", "insert"}})

\* POST /api/categories: authenticateToken, authorize('admin', 'editor'),
\* validate(categorySchemas.create); the controller computes finalSlug
Enter_createCategory(s, body) ==
  [s EXCEPT !.pc = "check",
            !.body = [name |-> body.name,
                      slug |-> IF Has(body, "slug") THEN body.slug
                               ELSE CategoryGenerateSlug(body.name)]]

Recv_createCategory(r, in) ==
  /\ reqs[r].pc = "idle"
  /\ nextCatId + PendingCatInserts(r) <= MaxCatId
  /\ \E s \in Admit("createCategory", Route(TRUE, {"admin", "editor"}, FALSE, categorySchemas_create),
                    Tokens(in), {0}, in.category) :
       Deliver(r, IF s.pc = "done" THEN s ELSE Enter_createCategory(s, s.body))

CreateCategory_check(r) ==
  LET s == reqs[r]
  IN /\ s.op = "createCategory" /\ s.pc = "check"
     /\ reqs' = [reqs EXCEPT ![r] =
          IF CategoryCheckExists(s.body.name, s.body.slug, 0)
          THEN Done(s, 400, "Category already exists")
          ELSE [s EXCEPT !.pc = "insert"]]
     /\ UNCHANGED <<users, categories, news, nextUserId, nextCatId, nextNewsId>>

\* Category.create: INSERT INTO categories (name, description, slug)
CreateCategory_insert(r) ==
  LET s == reqs[r]
      row == [name |-> s.body.name,
              slug |-> IF Truthy(s.body.slug) THEN s.body.slug
                       ELSE CategoryGenerateSlug(s.body.name),
              is_active |-> TRUE, created_at |-> "t0"]
  IN /\ s.op = "createCategory" /\ s.pc = "insert"
     /\ IF CategoriesConstraintOk(categories, 0, row)
        THEN /\ categories' = Extend(categories, nextCatId, row)
             /\ nextCatId' = nextCatId + 1
             /\ reqs' = [reqs EXCEPT ![r] = [s EXCEPT !.pc = "reread", !.id = nextCatId]]
        ELSE /\ reqs' = [reqs EXCEPT ![r] = Done(s, 500, "Failed to create category")]
             /\ UNCHANGED <<categories, nextCatId>>
     /\ UNCHANGED <<users, news, nextUserId, nextNewsId>>

\* Category.findById
CategoryFindById(id) ==
  IF id \in DOMAIN categories THEN RowOf(id, categories[id], CategoryColumns) ELSE NoRow

RereadCategory(r, okStatus, okMsg, failMsg) ==
  LET s == reqs[r]
  IN /\ s.pc = "reread"
     /\ reqs' = [reqs EXCEPT ![r] =
          IF s.id \in DOMAIN categories
          THEN [Done(s, okStatus, okMsg) EXCEPT !.data = CategoryFindById(s.id)]
          ELSE Done(s, 500, failMsg)]
     /\ UNCHANGED <<users, categories, news, nextUserId, nextCatId, nextNewsId>>

CreateCategory_reread(r) ==
  reqs[r].op = "createCategory"
  /\ RereadCategory(r, 201, "Category created successfully", "Failed to create category")

UpdateCategoryStmt(r, updateData, failMsg) ==
  LET s == reqs[r]
  IN IF s.id \notin DOMAIN categories
     THEN /\ reqs' = [reqs EXCEPT ![r] = [s EXCEPT !.pc = "reread"]]
          /\ UNCHANGED categories
     ELSE LET row == UpdatedCategoryRow(categories[s.id], updateData)
          IN IF CategoriesConstraintOk(categories, s.id, row)
             THEN /\ categories' = [categories EXCEPT ![s.id] = row]
                  /\ reqs' = [reqs EXCEPT ![r] = [s EXCEPT !.pc = "reread"]]
             ELSE /\ reqs' = [reqs EXCEPT ![r] = Done(s, 500, failMsg)]
                  /\ UNCHANGED categories

CategoryUpdateById(s, updateData, failMsg) ==
  IF DOMAIN updateData \cap CategoryAllowedFields = {}
  THEN Done(s, 500, failMsg)
  ELSE [s EXCEPT !.pc = "update", !.body = updateData, !.found = NoRow]

\* PUT /api/categories/:id: authenticateToken, authorize('admin',
\* 'editor'), validateId, validate(categorySchemas.update)
Recv_updateCategory(r, in) ==
  /\ reqs[r].pc = "idle"
  /\ \E s \in Admit("updateCategory", Route(TRUE, {"admin", "editor"}, TRUE, categorySchemas_update),
                    Tokens(in), in.catIds, in.category) :
       Deliver(r, IF s.pc = "done" THEN s ELSE Enter_find(s, s.body))

\* updateData after 'generate slug if name is being updated but slug is
\* not provided'
UpdateCategory_withSlug(body) ==
  IF Has(body, "name") /\ ~Has(body, "slug")
  THEN body @@ [slug |-> CategoryGenerateSlug(body.name)]
  ELSE body

UpdateCategory_find(r) ==
  LET s == reqs[r]
      updateData == UpdateCategory_withSlug(s.body)
  IN /\ s.op = "updateCategory" /\ s.pc = "find"
     /\ reqs' = [reqs EXCEPT ![r] =
          IF s.id \notin DOMAIN categories THEN Done(s, 404, "Category not found")
          ELSE IF Has(updateData, "name") \/ (Has(updateData, "slug") /\ Truthy(updateData.slug))
               THEN [s EXCEPT !.pc = "check", !.body = updateData,
                              !.found = [name |-> categories[s.id].name,
                                         slug |-> categories[s.id].slug]]
               ELSE CategoryUpdateById(s, updateData, "Failed to update category")]
     /\ UNCHANGED <<users, categories, news, nextUserId, nextCatId, nextNewsId>>

UpdateCategory_check(r) ==
  LET s == reqs[r]
      name == IF Has(s.body, "name") THEN s.body.name ELSE s.found.name
      slug == IF Has(s.body, "slug") /\ Truthy(s.body.slug) THEN s.body.slug ELSE s.found.slug
  IN /\ s.op = "updateCategory" /\ s.pc = "check"
     /\ reqs' = [reqs EXCEPT ![r] =
          IF CategoryCheckExists(name, slug, s.id)
          THEN Done(s, 400, "Another category already exists")
          ELSE CategoryUpdateById(s, s.body, "Failed to update category")]
     /\ UNCHANGED <<users, categories, news, nextUserId, nextCatId, nextNewsId>>

UpdateCategory_update(r) ==
  /\ reqs[r].op \in {"updateCategory", "Category.updateById"} /\ reqs[r].pc = "update"
  /\ UpdateCategoryStmt(r, reqs[r].body, "Failed to update category")
  /\ UNCHANGED <<users, news, nextUserId, nextCatId, nextNewsId>>

UpdateCategory_reread(r) ==
  reqs[r].op \in {"updateCategory", "Category.updateById"}
  /\ RereadCategory(r, 200, "Category updated successfully", "Failed to update category")

\* Category.findByIdWithNewsCount: COUNT(n.id) over the joined news rows
NewsCount(id) == Cardinality({n \in DOMAIN news : news[n].category_id = id})

\* DELETE /api/categories/:id: authenticateToken, authorize('admin'),
\* validateId
Recv_deleteCategory(r, in) ==
  /\ reqs[r].pc = "idle"
  /\ \E s \in Admit("deleteCategory", Route(TRUE, {"admin"}, TRUE, NoSchema),
                    Tokens(in), in.catIds, {EmptyObj}) :
       Deliver(r, IF s.pc = "done" THEN s ELSE Enter_find(s, s.body))

\* a deleteCategory that goes on to the DELETE whatever the news count
DeleteCategory_find_noCount(r) ==
  LET s == reqs[r]
  IN /\ s.op = "deleteCategory" /\ s.pc = "find"
     /\ reqs' = [reqs EXCEPT ![r] =
          IF s.id \notin DOMAIN categories THEN Done(s, 404, "Category not found")
          ELSE [s EXCEPT !.pc = "delete"]]
     /\ UNCHANGED <<users, categories, news, nextUserId, nextCatId, nextNewsId>>

DeleteCategory_find(r) ==
  LET s == reqs[r]
  IN /\ s.op = "deleteCategory" /\ s.pc = "find"
     /\ reqs' = [reqs EXCEPT ![r] =
          IF s.id \notin DOMAIN categories THEN Done(s, 404, "Category not found")
          ELSE IF NewsCount(s.id) > 0 THEN Done(s, 400, "Cannot delete category")
          ELSE [s EXCEPT !.pc = "delete"]]
     /\ UNCHANGED <<users, categories, news, nextUserId, nextCatId, nextNewsId>>

\* DELETE FROM categories WHERE id = ?; news.category_id is ON DELETE SET NULL
DeleteCategory_delete(r) ==
  LET s == reqs[r]
  IN /\ s.op = "deleteCategory" /\ s.pc = "delete"
     /\ categories' = Remove(categories, {s.id})
     /\ news' = [n \in DOMAIN news |->
                   IF s.id \in DOMAIN categories /\ news[n].category_id = s.id
                   THEN [news[n] EXCEPT !.category_id = 0] ELSE news[n]]
     /\ reqs' = [reqs EXCEPT ![r] =
          IF s.id \in DOMAIN categories THEN Done(s, 200, "Category deleted successfully")
          ELSE Done(s, 400, "Failed to delete category")]
     /\ UNCHANGED <<users, nextUserId, nextCatId, nextNewsId>>

\* PATCH /api/categories/:id/toggle-status: authenticateToken,
\* authorize('admin', 'editor'), validateId
Recv_toggleCategoryStatus(r, in) ==
  /\ reqs[r].pc = "idle"
  /\ \E s \in Admit("toggleCategoryStatus", Route(TRUE, {"admin", "editor"}, TRUE, NoSchema),
                    Tokens(in), in.catIds, {EmptyObj}) :
       Deliver(r, IF s.pc = "done" THEN s ELSE Enter_find(s, s.body))

ToggleCategoryStatus_find(r) ==
  LET s == reqs[r]
  IN /\ s.op = "toggleCategoryStatus" /\ s.pc = "find"
     /\ reqs' = [reqs EXCEPT ![r] =
          IF s.id \notin DOMAIN categories THEN Done(s, 404, "Category not found")
          ELSE [s EXCEPT !.pc = "update", !.body = [is_active |-> ~categories[s.id].is_active]]]
     /\ UNCHANGED <<users, categories, news, nextUserId, nextCatId, nextNewsId>>

ToggleCategoryStatus_update(r) ==
  /\ reqs[r].op = "toggleCategoryStatus" /\ reqs[r].pc = "update"
  /\ UpdateCategoryStmt(r, reqs[r].body, "Failed to change category status")
  /\ UNCHANGED <<users, news, nextUserId, nextCatId, nextNewsId>>

ToggleCategoryStatus_reread(r) ==
  reqs[r].op = "toggleCategoryStatus"
  /\ RereadCategory(r, 200, "Category status changed", "Failed to change category status")

(* ------------------------------- news --------------------------------- *)
NewsBodies ==
  {OptSeq("title", t) @@ OptSeq("content", c) @@ OptSeq("slug", sl) @@ OptStr("status", st)
     @@ OptInt("category_id", cv) :
     t \in Titles \cup {<<>>}, c \in {<<"c">>, <<>>}, sl \in SlugInputs \cup {<<>>},
     st \in Statuses \cup {"bogus", "absent"}, cv \in (-1)..MaxCatId}

NewsIds == 0..MaxNewsId

NewsAllowedFields ==
  {"title", "content", "summary", "slug", "featured_image", "status", "category_id"}
NewsColumns ==
  {"title", "content", "slug", "status", "category_id", "author_id", "published_at",
   "created_at"}

\* an UPDATE that stamps published_at on publishing and never clears it
UpdatedNewsRow_keepStamp(row, updateData) ==
  [c \in NewsColumns |->
     IF c = "published_at"
     THEN (Has(updateData, "status") /\ updateData.status = "published") \/ row.published_at
     ELSE IF c \in DOMAIN updateData /\ c \in NewsAllowedFields THEN updateData[c] ELSE row[c]]

\* the row UPDATE news SET <allow-listed keys>, published_at per status
UpdatedNewsRow(row, updateData) ==
  [c \in NewsColumns |->
     IF c = "published_at"
     THEN IF Has(updateData, "status")
          THEN updateData.status = "published"
          ELSE row.published_at
     ELSE IF c \in DOMAIN updateData /\ c \in NewsAllowedFields THEN updateData[c] ELSE row[c]]

\* News.existsBySlug(slug, excludeId)
NewsExistsBySlug(slug, excludeId) ==
  \E o \in DOMAIN news : news[o].slug = slug /\ (excludeId # 0 => o # excludeId)

PendingNewsInserts(r) ==
  Cardinality({q \in Reqs \ {r} :
    reqs[q].op = "createNews" /\ reqs[q].pc \in {"slugcheck", "catcheck", "insert"}})

\* the ownership rule of updateNews and deleteNews
MayEditNews(user, authorId) ==
  user.role = "admin" \/ user.role = "editor" \/ user.id = authorId

\* POST /api/news: authenticateToken, validate(newsSchemas.create); the
\* controller builds the News.create argument
Enter_createNews(s, body) ==
  [s EXCEPT !.pc = "slugcheck",
            !.body = [title |-> body.title, content |-> body.content,
                      slug |-> IF Has(body, "slug") THEN body.slug
                               ELSE NewsGenerateSlug(body.title),
                      status |-> IF Has(body, "status") THEN body.status ELSE "draft",
                      category_id |-> IF Has(body, "category_id") THEN body.category_id ELSE 0]]

Recv_createNews(r, in) ==
  /\ reqs[r].pc = "idle"
  /\ nextNewsId + PendingNewsInserts(r) <= MaxNewsId
  /\ \E s \in Admit("createNews", Route(TRUE, {}, FALSE, newsSchemas_create),
                    Tokens(in), {0}, in.news) :
       Deliver(r, IF s.pc = "done" THEN s ELSE Enter_createNews(s, s.body))

CreateNews_slugcheck(r) ==
  LET s == reqs[r]
  IN /\ s.op = "createNews" /\ s.pc = "slugcheck"
     /\ reqs' = [reqs EXCEPT ![r] =
          IF NewsExistsBySlug(s.body.slug, 0) THEN Done(s, 400, "News slug already exists")
          ELSE IF s.body.category_id # 0 THEN [s EXCEPT !.pc = "catcheck"]
          ELSE [s EXCEPT !.pc = "insert"]]
     /\ UNCHANGED <<users, categories, news, nextUserId, nextCatId, nextNewsId>>

CreateNews_catcheck(r) ==
  LET s == reqs[r]
  IN /\ s.op = "createNews" /\ s.pc = "catcheck"
     /\ reqs' = [reqs EXCEPT ![r] =
          IF s.body.category_id \notin DOMAIN categories THEN Done(s, 400, "Category not found")
          ELSE [s EXCEPT !.pc = "insert"]]
     /\ UNCHANGED <<users, categories, news, nextUserId, nextCatId, nextNewsId>>

\* News.create: INSERT INTO news (...); published_at is not in the column
\* list
CreateNews_insert(r) ==
  LET s == reqs[r]
      row == [title |-> s.body.title, content |-> s.body.content,
              slug |-> IF Truthy(s.body.slug) THEN s.body.slug
                       ELSE NewsGenerateSlug(s.body.title),
              status |-> s.body.status, category_id |-> s.body.category_id,
              author_id |-> s.user.id, published_at |-> FALSE, created_at |-> "t0"]
  IN /\ s.op = "createNews" /\ s.pc = "insert"
     /\ IF NewsConstraintOk(news, 0, row)
        THEN /\ news' = Extend(news, nextNewsId, row)
             /\ nextNewsId' = nextNewsId + 1
             /\ reqs' = [reqs EXCEPT ![r] = [s EXCEPT !.pc = "reread", !.id = nextNewsId]]
        ELSE /\ reqs' = [reqs EXCEPT ![r] = Done(s, 500, "Failed to create news article")]
             /\ UNCHANGED <<news, nextNewsId>>
     /\ UNCHANGED <<users, categories, nextUserId, nextCatId>>

\* News.findById: the row LEFT JOINed with its category and its author
NewsFindById(id) ==
  IF id \in DOMAIN news
  THEN LET row == news[id]
       IN RowOf(id, row, NewsColumns) @@
          [category_name |-> IF row.category_id \in DOMAIN categories
                             THEN categories[row.category_id].name ELSE "NULL",
           author_username |-> IF row.author_id \in DOMAIN users
                               THEN users[row.author_id].username ELSE "NULL"]
  ELSE NoRow

RereadNews(r, okStatus, okMsg, failMsg) ==
  LET s == reqs[r]
  IN /\ s.pc = "reread"
     /\ reqs' = [reqs EXCEPT ![r] =
          IF s.id \in DOMAIN news
          THEN [Done(s, okStatus, okMsg) EXCEPT !.data = NewsFindById(s.id)]
          ELSE Done(s, 500, failMsg)]
     /\ UNCHANGED <<users, categories, news, nextUserId, nextCatId, nextNewsId>>

CreateNews_reread(r) ==
  reqs[r].op = "createNews"
  /\ RereadNews(r, 201, "News article created successfully", "Failed to create news article")

\* PUT /api/news/:id: authenticateToken, validateId,
\* validate(newsSchemas.update)
Recv_updateNews(r, in) ==
  /\ reqs[r].pc = "idle"
  /\ \E s \in Admit("updateNews", Route(TRUE, {}, TRUE, newsSchemas_update),
                    Tokens(in), in.newsIds, in.news) :
       Deliver(r, IF s.pc = "done" THEN s ELSE Enter_find(s, s.body))

\* updateData after 'generate slug if title is being updated but slug is
\* not provided'
UpdateNews_withSlug(body) ==
  IF Has(body, "title") /\ ~Has(body, "slug")
  THEN body @@ [slug |-> NewsGenerateSlug(body.title)]
  ELSE body

\* News.updateById up to its statement
NewsUpdateById(s, updateData, failMsg) ==
  IF DOMAIN updateData \cap NewsAllowedFields = {}
  THEN Done(s, 500, failMsg)
  ELSE [s EXCEPT !.pc = "update", !.body = updateData, !.found = NoRow]

\* updateNews after the slug check: verify the category if one is given
UpdateNews_afterSlug(s, updateData) ==
  IF Has(updateData, "category_id")
  THEN [s EXCEPT !.pc = "catcheck", !.body = updateData, !.found = NoRow]
  ELSE NewsUpdateById(s, updateData, "Failed to update news article")

UpdateNews_find(r) ==
  LET s == reqs[r]
      updateData == UpdateNews_withSlug(s.body)
  IN /\ s.op = "updateNews" /\ s.pc = "find"
     /\ reqs' = [reqs EXCEPT ![r] =
          IF s.id \notin DOMAIN news THEN Done(s, 404, "News article not found")
          ELSE IF ~MayEditNews(s.user, news[s.id].author_id)
               THEN Done(s, 403, "Access denied - you can only edit your own articles")
          ELSE IF Has(updateData, "slug") /\ Truthy(updateData.slug)
               THEN [s EXCEPT !.pc = "slugcheck", !.body = updateData]
          ELSE UpdateNews_afterSlug(s, updateData)]
     /\ UNCHANGED <<users, categories, news, nextUserId, nextCatId, nextNewsId>>

UpdateNews_slugcheck(r) ==
  LET s == reqs[r]
  IN /\ s.op = "updateNews" /\ s.pc = "slugcheck"
     /\ reqs' = [reqs EXCEPT ![r] =
          IF NewsExistsBySlug(s.body.slug, s.id)
          THEN Done(s, 400, "Another news slug already exists")
          ELSE UpdateNews_afterSlug(s, s.body)]
     /\ UNCHANGED <<users, categories, news, nextUserId, nextCatId, nextNewsId>>

UpdateNews_catcheck(r) ==
  LET s == reqs[r]
  IN /\ s.op = "updateNews" /\ s.pc = "catcheck"
     /\ reqs' = [reqs EXCEPT ![r] =
          IF s.body.category_id \notin DOMAIN categories THEN Done(s, 400, "Category not found")
          ELSE NewsUpdateById(s, s.body, "Failed to update news article")]
     /\ UNCHANGED <<users, categories, news, nextUserId, nextCatId, nextNewsId>>

\* UPDATE news SET ... WHERE id = ?
UpdateNews_update(r) ==
  LET s == reqs[r]
  IN /\ s.op \in {"updateNews", "News.updateById"} /\ s.pc = "update"
     /\ IF s.id \notin DOMAIN news
        THEN /\ reqs' = [reqs EXCEPT ![r] = [s EXCEPT !.pc = "reread"]]
             /\ UNCHANGED news
        ELSE LET row == UpdatedNewsRow(news[s.id], s.body)
             IN IF NewsConstraintOk(news, s.id, row)
                THEN /\ news' = [news EXCEPT ![s.id] = row]
                     /\ reqs' = [reqs EXCEPT ![r] = [s EXCEPT !.pc = "reread"]]
                ELSE /\ reqs' = [reqs EXCEPT ![r] = Done(s, 500, "Failed to update news article")]
                     /\ UNCHANGED news
     /\ UNCHANGED <<users, categories, nextUserId, nextCatId, nextNewsId>>

UpdateNews_reread(r) ==
  reqs[r].op \in {"updateNews", "News.updateById"}
  /\ RereadNews(r, 200, "News article updated successfully", "Failed to update news article")

\* DELETE /api/news/:id: authenticateToken, validateId
Recv_deleteNews(r, in) ==
  /\ reqs[r].pc = "idle"
  /\ \E s \in Admit("deleteNews", Route(TRUE, {}, TRUE, NoSchema),
                    Tokens(in), in.newsIds, {EmptyObj}) :
       Deliver(r, IF s.pc = "done" THEN s ELSE Enter_find(s, s.body))

\* a deleteNews that removes the row before it looks at the caller
DeleteNews_find_deleteFirst(r) ==
  LET s == reqs[r]
  IN /\ s.op = "deleteNews" /\ s.pc = "find"
     /\ news' = Remove(news, {s.id})
     /\ reqs' = [reqs EXCEPT ![r] =
          IF s.id \notin DOMAIN news THEN Done(s, 404, "News article not found")
          ELSE IF ~MayEditNews(s.user, news[s.id].author_id)
               THEN Done(s, 403, "Access denied - you can only delete your own articles")
          ELSE Done(s, 200, "News article deleted successfully")]
     /\ UNCHANGED <<users, categories, nextUserId, nextCatId, nextNewsId>>

DeleteNews_find(r) ==
  LET s == reqs[r]
  IN /\ s.op = "deleteNews" /\ s.pc = "find"
     /\ reqs' = [reqs EXCEPT ![r] =
          IF s.id \notin DOMAIN news THEN Done(s, 404, "News article not found")
          ELSE IF ~MayEditNews(s.user, news[s.id].author_id)
               THEN Done(s, 403, "Access denied - you can only delete your own articles")
          ELSE [s EXCEPT !.pc = "delete"]]
     /\ UNCHANGED <<users, categories, news, nextUserId, nextCatId, nextNewsId>>

\* DELETE FROM news WHERE id = ?
DeleteNews_delete(r) ==
  LET s == reqs[r]
  IN /\ s.op = "deleteNews" /\ s.pc = "delete"
     /\ news' = Remove(news, {s.id})
     /\ reqs' = [reqs EXCEPT ![r] =
          IF s.id \in DOMAIN news THEN Done(s, 200, "News article deleted successfully")
          ELSE Done(s, 400, "Failed to delete news article")]
     /\ UNCHANGED <<users, categories, nextUserId, nextCatId, nextNewsId>>

(* ------------------------------- lists -------------------------------- *)
\* key k of obj when it is defined: an undefined property is left out
Opt(obj, k) == IF Has(obj, k) THEN [x \in {k} |-> obj[k]] ELSE EmptyObj

\* a destructuring default
OptionOr(options, k, dflt) == IF Has(options, k) THEN options[k] ELSE dflt

\* parseInt(req.query[k]) || dflt
QueryInt(q, k, dflt) ==
  LET n == IF Has(q, k) THEN ParseInt(q[k]) ELSE NaN
  IN IF n = NaN \/ n = 0 THEN dflt ELSE n

\* req.query[k] ? parseInt(req.query[k]) : undefined
QueryIntOpt(q, k) ==
  IF Has(q, k) /\ Truthy(q[k]) THEN [x \in {k} |-> ParseInt(q[k])] ELSE EmptyObj

\* a number in a condition: 0 and NaN are falsy
TruthyNum(v) == v # 0 /\ v # NaN

\* the text of a username or an email
Chars(str) ==
  CASE str = "u1" -> <<"u", "1">> [] str = "u2" -> <<"u", "2">>
    [] str = "e1" -> <<"e", "1">> [] str = "e2" -> <<"e", "2">>
    [] OTHER -> <<>>

\* text LIKE '%term%' for a term without wildcards; NULL (the empty text
\* here) matches nothing
Like(text, term) ==
  \E i \in 1..(Len(text) - Len(term) + 1) :
    ToLowerCase(SubSeq(text, i, i + Len(term) - 1)) = ToLowerCase(term)

\* ORDER BY id (or created_at, which does not decrease with id) ASC or DESC
RECURSIVE SortedIds(_, _)
SortedIds(S, asc) ==
  IF S = {} THEN <<>>
  ELSE LET m == CHOOSE x \in S : \A y \in S : IF asc THEN x <= y ELSE x >= y
       IN <<m>> \o SortedIds(S \ {m}, asc)

\* order.toLowerCase() === 'asc'
IsAsc(options) == OptionOr(options, "order", "desc") \in {"asc", "ASC"}

\* validSortFields.includes(sort) ? sort : 'created_at'
SortField(options, validSortFields) ==
  LET sort == OptionOr(options, "sort", "created_at")
  IN IF sort \in validSortFields THEN sort ELSE "created_at"

\* the orders ORDER BY <sortField> can give the rows S: by id for id and
\* created_at; the values of the other columns are not ordered here, and
\* any order of the rows is possible
Orders(S, sortField, asc) ==
  IF sortField \in {"id", "created_at"} THEN {SortedIds(S, asc)}
  ELSE {f \in [1..Cardinality(S) -> S] : \A i, j \in 1..Cardinality(S) : f[i] = f[j] => i = j}

\* LIMIT ? OFFSET ?: a negative limit is no limit, a negative offset is 0
SqlPage(ordered, limit, offset) ==
  LET off == IF offset < 0 THEN 0 ELSE offset
      rest == SubSeq(ordered, off + 1, Len(ordered))
  IN IF limit < 0 \/ limit >= Len(rest) THEN rest ELSE SubSeq(rest, 1, limit)

\* the pagination object; Math.ceil(total / limit) is not a number for
\* limit 0
Pagination(options, total) ==
  LET page == OptionOr(options, "page", 1)
      limit == OptionOr(options, "limit", 10)
  IN [page |-> page, limit |-> limit, total |-> total,
      pages |-> IF limit > 0 THEN (total + limit - 1) \div limit
                ELSE IF limit < 0 THEN -(total \div (-limit))
                ELSE NaN]

\* the page of `ordered` that findAll selects
PageOf(ordered, options) ==
  LET page == OptionOr(options, "page", 1)
      limit == OptionOr(options, "limit", 10)
  IN SqlPage(ordered, limit, (page - 1) * limit)

\* the WHERE clause of User.findAll
UserWhere(options) ==
  {u \in DOMAIN users :
     /\ Has(options, "role") => users[u].role = options.role
     /\ Has(options, "is_active") => users[u].is_active = options.is_active
     /\ (Has(options, "search") /\ Truthy(options.search))
          => \/ Like(Chars(users[u].username), options.search)
             \/ Like(Chars(users[u].email), options.search)}

\* the WHERE clause of Category.findAll
CategoryWhere(options) ==
  {c \in DOMAIN categories :
     /\ Has(options, "is_active") => categories[c].is_active = options.is_active
     /\ (Has(options, "search") /\ Truthy(options.search))
          => Like(categories[c].name, options.search)}

\* the WHERE clause of News.findAll
NewsWhere(options) ==
  {n \in DOMAIN news :
     /\ Has(options, "status") => news[n].status = options.status
     /\ (Has(options, "category_id") /\ TruthyNum(options.category_id))
          => news[n].category_id = options.category_id
     /\ (Has(options, "author_id") /\ TruthyNum(options.author_id))
          => news[n].author_id = options.author_id
     /\ (Has(options, "search") /\ Truthy(options.search))
          => \/ Like(news[n].title, options.search)
             \/ Like(news[n].content, options.search)}

\* ORDER BY <sortField> in Category.findAll's SELECT, which joins news: a
\* column name that both tables have is ambiguous and the statement fails
AmbiguousOrderBy(options) ==
  LET sortField == SortField(options, {"id", "name", "slug", "created_at"})
      categoriesColumns ==
        {"id", "name", "description", "slug", "is_active", "created_at", "updated_at"}
      newsColumns ==
        {"id", "title", "content", "summary", "slug", "featured_image", "status", "category_id",
         "author_id", "published_at", "created_at", "updated_at"}
  IN sortField \in categoriesColumns \cap newsColumns

\* ORDER BY name: names are unique, compared by their character codes
CategoriesByName(S, asc) ==
  LET code(c) == CASE c = " " -> 32 [] c = "!" -> 33 [] c = "-" -> 45 [] c = "0" -> 48
                   [] c = "1" -> 49 [] c = "A" -> 65 [] c = "B" -> 66 [] c = "_" -> 95
                   [] c = "a" -> 97 [] c = "b" -> 98 [] OTHER -> 0
      less(x, y) ==
        \E i \in 1..(Len(y)) :
          /\ \A j \in 1..(i - 1) : j <= Len(x) /\ x[j] = y[j]
          /\ i > Len(x) \/ (i - 1 < Len(x) /\ code(x[i]) < code(y[i]))
      before(a, b) == IF asc THEN less(categories[a].name, categories[b].name)
                      ELSE less(categories[b].name, categories[a].name)
      rank(a) == Cardinality({b \in S : before(b, a)})
  IN [i \in 1..Cardinality(S) |-> CHOOSE a \in S : rank(a) = i - 1]

\* the answer of a list request or call
Listed(s, items, total) ==
  [Done(s, 200, "success") EXCEPT
     !.data = [items |-> items, pagination |-> Pagination(s.body, total)]]

\* User.findAll: SELECT COUNT(*), then the page
UserFindAll_count(r) ==
  LET s == reqs[r]
  IN /\ s.op \in {"getAllUsers", "User.findAll"} /\ s.pc = "count"
     /\ reqs' = [reqs EXCEPT ![r] =
          [s EXCEPT !.pc = "select", !.found = [total |-> Cardinality(UserWhere(s.body))]]]
     /\ UNCHANGED <<users, categories, news, nextUserId, nextCatId, nextNewsId>>

UserFindAll_select(r) ==
  LET s == reqs[r]
      sortField == SortField(s.body, {"id", "username", "email", "first_name", "last_name",
                                      "role", "created_at"})
  IN /\ s.op \in {"getAllUsers", "User.findAll"} /\ s.pc = "select"
     /\ \E ordered \in Orders(UserWhere(s.body), sortField, IsAsc(s.body)) :
          reqs' = [reqs EXCEPT ![r] = Listed(s, PageOf(ordered, s.body), s.found.total)]
     /\ UNCHANGED <<users, categories, news, nextUserId, nextCatId, nextNewsId>>

\* Category.findAll
CategoryFindAll_count(r) ==
  LET s == reqs[r]
  IN /\ s.op \in {"getAllCategories", "Category.findAll"} /\ s.pc = "count"
     /\ reqs' = [reqs EXCEPT ![r] =
          [s EXCEPT !.pc = "select", !.found = [total |-> Cardinality(CategoryWhere(s.body))]]]
     /\ UNCHANGED <<users, categories, news, nextUserId, nextCatId, nextNewsId>>

CategoryFindAll_select(r) ==
  LET s == reqs[r]
  IN /\ s.op \in {"getAllCategories", "Category.findAll"} /\ s.pc = "select"
     /\ reqs' = [reqs EXCEPT ![r] =
          IF AmbiguousOrderBy(s.body) THEN Done(s, 500, "Failed to retrieve categories")
          ELSE Listed(s, PageOf(CategoriesByName(CategoryWhere(s.body), IsAsc(s.body)), s.body),
                      s.found.total)]
     /\ UNCHANGED <<users, categories, news, nextUserId, nextCatId, nextNewsId>>

\* News.findAll and the presets built on it
NewsListOps ==
  {"getAllNews", "getPublishedNews", "searchNews", "getMyNews", "getNewsByCategory",
   "News.findAll", "News.findPublished", "News.findByCategory", "News.findByAuthor"}

NewsFindAll_count(r) ==
  LET s == reqs[r]
  IN /\ s.op \in NewsListOps /\ s.pc = "count"
     /\ reqs' = [reqs EXCEPT ![r] =
          [s EXCEPT !.pc = "select", !.found = [total |-> Cardinality(NewsWhere(s.body))]]]
     /\ UNCHANGED <<users, categories, news, nextUserId, nextCatId, nextNewsId>>

NewsFindAll_select(r) ==
  LET s == reqs[r]
      sortField == SortField(s.body, {"id", "title", "status", "published_at", "created_at"})
  IN /\ s.op \in NewsListOps /\ s.pc = "select"
     /\ \E ordered \in Orders(NewsWhere(s.body), sortField, IsAsc(s.body)) :
          reqs' = [reqs EXCEPT ![r] = Listed(s, PageOf(ordered, s.body), s.found.total)]
     /\ UNCHANGED <<users, categories, news, nextUserId, nextCatId, nextNewsId>>

\* a preset that lets the caller's status through
News_findPublished_callerWins(options) == options @@ [status |-> "published"]

\* News.findPublished, findByCategory, findByAuthor, search: the options
\* findAll is called with
News_findPublished(options) == [status |-> "published"] @@ options

News_findByCategory(categoryId, options) == [category_id |-> categoryId] @@ options

News_findByAuthor(authorId, options) == [author_id |-> authorId] @@ options

News_search(searchTerm, options) == [search |-> searchTerm] @@ options

\* page, limit, sort and order as the list controllers read them from
\* req.query; a validated number reads as its decimal text does
ListOptions(q, sort) ==
  [page |-> QueryInt(q, "page", 1), limit |-> QueryInt(q, "limit", 10),
   sort |-> OptionOr(q, "sort", sort), order |-> OptionOr(q, "order", "desc")]

\* UserController.getAllUsers; the validated is_active is a boolean, never
\* the text 'true' or 'false', so the option is undefined
Enter_getAllUsers(s, q) ==
  [s EXCEPT !.pc = "count", !.query = q,
            !.body = ListOptions(q, "created_at") @@ Opt(q, "role") @@ Opt(q, "search")]

\* GET /api/users: authenticateToken, authorize('admin', 'editor'),
\* validate(combinedQuerySchemas.userList, 'query')
Recv_getAllUsers(r, in) ==
  /\ reqs[r].pc = "idle"
  /\ \E s \in Admit("getAllUsers", Route(TRUE, {"admin", "editor"}, FALSE, combinedQuerySchemas_userList),
                    Tokens(in), {0}, in.userQueries) :
       Deliver(r, IF s.pc = "done" THEN s ELSE Enter_getAllUsers(s, s.body))

\* GET /api/categories: optionalAuth,
\* validate(combinedQuerySchemas.categoryList, 'query')
Recv_getAllCategories(r, in) ==
  /\ reqs[r].pc = "idle"
  /\ \E s \in Admit("getAllCategories", Route(FALSE, {}, FALSE, combinedQuerySchemas_categoryList),
                    {NoToken}, {0}, in.categoryQueries) :
       Deliver(r, IF s.pc = "done" THEN s
                  ELSE [s EXCEPT !.pc = "count", !.query = s.body,
                                 !.body = ListOptions(s.body, "created_at") @@ Opt(s.body, "search")])

\* GET /api/news: optionalAuth, validate(combinedQuerySchemas.newsList,
\* 'query')
Recv_getAllNews(r, in) ==
  /\ reqs[r].pc = "idle"
  /\ \E s \in Admit("getAllNews", Route(FALSE, {}, FALSE, combinedQuerySchemas_newsList),
                    {NoToken}, {0}, in.newsQueries) :
       Deliver(r, IF s.pc = "done" THEN s
                  ELSE [s EXCEPT !.pc = "count", !.query = s.body,
                                 !.body = ListOptions(s.body, "created_at") @@ Opt(s.body, "status")
                                            @@ QueryIntOpt(s.body, "category_id")
                                            @@ QueryIntOpt(s.body, "author_id")
                                            @@ Opt(s.body, "search")])

\* optionalAuth at the head of GET /api/categories and GET /api/news: the
\* slot keeps the token, whether the store failed, req.user, the response
\* status (0: none sent) and how often next() was called
Run_optionalAuth(r, in) ==
  /\ reqs[r].pc = "idle"
  /\ \E tok \in Tokens(in), dbError \in BOOLEAN :
       Deliver(r, [Idle EXCEPT !.op = "optionalAuth", !.pc = "done", !.tok = tok,
                               !.query = [dbError |-> dbError],
                               !.user = optionalAuth(tok, dbError).user,
                               !.status = optionalAuth(tok, dbError).status,
                               !.data = [nexts |-> optionalAuth(tok, dbError).nexts]])

\* a direct call of News.generateSlug (with the limit max) or of
\* Category.generateSlug on a text; the slot keeps the text, the limit and
\* the slug returned
Call_generateSlug(r, in) ==
  /\ reqs[r].pc = "idle"
  /\ \/ \E text \in in.texts, max \in in.maxLens :
          Deliver(r, [Idle EXCEPT !.op = "News.generateSlug", !.pc = "done",
                                  !.body = [text |-> text], !.query = [max |-> max],
                                  !.data = [slug |-> NewsGenerateSlug_max(text, max)]])
     \/ \E text \in in.texts :
          Deliver(r, [Idle EXCEPT !.op = "Category.generateSlug", !.pc = "done",
                                  !.body = [text |-> text],
                                  !.data = [slug |-> CategoryGenerateSlug(text)]])

\* GET /api/news/published: validate(combinedQuerySchemas.newsList, 'query')
Recv_getPublishedNews(r, in) ==
  /\ reqs[r].pc = "idle"
  /\ \E s \in Admit("getPublishedNews", Route(FALSE, {}, FALSE, combinedQuerySchemas_newsList),
                    {NoToken}, {0}, in.newsQueries) :
       Deliver(r, IF s.pc = "done" THEN s
                  ELSE [s EXCEPT !.pc = "count", !.query = s.body,
                                 !.body = News_findPublished(
                                            ListOptions(s.body, "published_at")
                                              @@ QueryIntOpt(s.body, "category_id")
                                              @@ Opt(s.body, "search"))])

\* GET /api/news/my: authenticateToken,
\* validate(combinedQuerySchemas.newsList, 'query')
Recv_getMyNews(r, in) ==
  /\ reqs[r].pc = "idle"
  /\ \E s \in Admit("getMyNews", Route(TRUE, {}, FALSE, combinedQuerySchemas_newsList),
                    Tokens(in), {0}, in.newsQueries) :
       Deliver(r, IF s.pc = "done" THEN s
                  ELSE [s EXCEPT !.pc = "count", !.query = s.body,
                                 !.body = News_findByAuthor(s.user.id,
                                            ListOptions(s.body, "created_at")
                                              @@ Opt(s.body, "status")
                                              @@ QueryIntOpt(s.body, "category_id")
                                              @@ Opt(s.body, "search"))])

\* NewsController.searchNews
Enter_searchNews(s, q) ==
  IF ~Has(q, "q") \/ Len(Trim(q.q)) < 2
  THEN [Done(s, 400, "Search term must be at least 2 characters long") EXCEPT !.query = q]
  ELSE [s EXCEPT !.pc = "count", !.query = q,
                 !.body = News_search(q.q,
                            [page |-> QueryInt(q, "page", 1), limit |-> QueryInt(q, "limit", 10),
                             status |-> OptionOr(q, "status", "published")]
                              @@ QueryIntOpt(q, "category_id"))]

\* GET /api/news/search: no middleware
Recv_searchNews(r, in) ==
  /\ reqs[r].pc = "idle"
  /\ \E s \in Admit("searchNews", Route(FALSE, {}, FALSE, NoSchema), {NoToken}, {0},
                    in.searchQueries) :
       Deliver(r, Enter_searchNews(s, s.body))

\* GET /api/news/latest: no middleware; NewsController.getLatestNews
Recv_getLatestNews(r, in) ==
  /\ reqs[r].pc = "idle"
  /\ \E s \in Admit("getLatestNews", Route(FALSE, {}, FALSE, NoSchema), {NoToken}, {0},
                    in.latestQueries) :
       Deliver(r, [s EXCEPT !.pc = "latest", !.query = s.body,
                            !.body = [limit |-> QueryInt(s.body, "limit", 5)]])

\* News.getLatest: WHERE n.status = 'published' ORDER BY n.published_at
\* DESC LIMIT ?
GetLatestNews_select(r) ==
  LET s == reqs[r]
      published == {n \in DOMAIN news : news[n].status = "published"}
  IN /\ s.op = "getLatestNews" /\ s.pc = "latest"
     /\ \E ordered \in Orders(published, "published_at", FALSE) :
          reqs' = [reqs EXCEPT ![r] =
            [Done(s, 200, "success") EXCEPT !.data = [items |-> SqlPage(ordered, s.body.limit, 0)]]]
     /\ UNCHANGED <<users, categories, news, nextUserId, nextCatId, nextNewsId>>

\* req.params.id as validateId reads it: a route whose path has no :id
\* leaves it undefined, and parseInt(undefined) is NaN
ParamId(params) == IF Has(params, "id") THEN params.id ELSE 0

\* NewsController.getNewsByCategory
Enter_getNewsByCategory(s, q) == [s EXCEPT !.pc = "find", !.body = q]

\* GET /api/news/category/:categoryId: validateId
Recv_getNewsByCategory(r, in) ==
  /\ reqs[r].pc = "idle"
  /\ \E c \in in.catIds :
       \E s \in Admit("getNewsByCategory", Route(FALSE, {}, TRUE, NoSchema), {NoToken},
                       {ParamId([categoryId |-> c])}, in.newsQueries) :
         Deliver(r, [(IF s.pc = "done" THEN s ELSE Enter_getNewsByCategory(s, s.body))
                       EXCEPT !.query = [categoryId |-> c] @@ s.body])

\* getNewsByCategory after Category.findById; validateId answers every
\* request of the route, so no request gets here
GetNewsByCategory_find(r) ==
  LET s == reqs[r]
  IN /\ s.op = "getNewsByCategory" /\ s.pc = "find"
     /\ reqs' = [reqs EXCEPT ![r] =
          IF s.query.categoryId \notin DOMAIN categories THEN Done(s, 404, "Category not found")
          ELSE [s EXCEPT !.pc = "count",
                         !.body = News_findByCategory(s.query.categoryId,
                                    ListOptions(s.body, "published_at") @@ Opt(s.body, "search"))]]
     /\ UNCHANGED <<users, categories, news, nextUserId, nextCatId, nextNewsId>>

\* a caller inside the application runs findAll with its own options
Call_findAll(r, in) ==
  /\ reqs[r].pc = "idle"
  /\ \E s \in {[Idle EXCEPT !.op = "User.findAll", !.pc = "count", !.query = o, !.body = o] :
                  o \in in.userOptions}
             \cup {[Idle EXCEPT !.op = "Category.findAll", !.pc = "count", !.query = o, !.body = o] :
                     o \in in.categoryOptions}
             \cup {[Idle EXCEPT !.op = "News.findAll", !.pc = "count", !.query = o, !.body = o] :
                     o \in in.newsOptions} :
       Deliver(r, s)

\* a caller inside the application runs updateById(id, updateData) with
\* its own object
Call_updateById(r, in) ==
  /\ reqs[r].pc = "idle"
  /\ \E s \in {UserUpdateById([Idle EXCEPT !.op = "User.updateById", !.id = i, !.body = d], d,
                               "No valid fields to update") :
                  i \in in.userIds, d \in in.userData}
             \cup {CategoryUpdateById([Idle EXCEPT !.op = "Category.updateById", !.id = i,
                                            !.body = d], d,
                                      "No valid fields to update") :
                     i \in in.catIds, d \in in.categoryData}
             \cup {NewsUpdateById([Idle EXCEPT !.op = "News.updateById", !.id = i, !.body = d], d,
                                  "No valid fields to update") :
                     i \in in.newsIds, d \in in.newsData} :
       Deliver(r, s)

\* a caller runs a preset list with its own options
Call_preset(r, in) ==
  /\ reqs[r].pc = "idle"
  /\ \E o \in in.newsOptions :
       \E s \in {[Idle EXCEPT !.op = "News.findPublished", !.pc = "count", !.query = o,
                              !.body = News_findPublished(o)]}
               \cup {[Idle EXCEPT !.op = "News.findByCategory", !.pc = "count", !.query = o,
                                  !.id = c, !.body = News_findByCategory(c, o)] :
                       c \in in.catIds \ {0}}
               \cup {[Idle EXCEPT !.op = "News.findByAuthor", !.pc = "count", !.query = o,
                                  !.id = a, !.body = News_findByAuthor(a, o)] :
                       a \in in.userIds \ {0}} :
         Deliver(r, s)

(* --------------------------- specification ---------------------------- *)
\* page and limit as clients write them in a query string
PageQueries ==
  {OptSeq("page", p) @@ OptSeq("limit", l) :
     p \in {<<>>, <<"1">>, <<"2">>, <<"0">>, <<"-", "1">>, <<"x">>},
     l \in {<<>>, <<"1">>, <<"2">>, <<"2", "1">>, <<"1", "0", "1">>, <<"-", "1">>}}

SearchQueries ==
  {q @@ OptSeq("q", t) : q \in PageQueries, t \in {<<>>, <<"a">>, <<"a", "!">>}}

\* options objects of callers inside the application
PageOptions == {OptInt("page", p) @@ OptInt("limit", l) : p \in {-1, 1, 2, 3}, l \in {-1, 1, 2}}

UserOptions ==
  {o @@ OptStr("role", ro) @@ OptBool("is_active", ia) :
     o \in PageOptions, ro \in {"user", "absent"}, ia \in {"true", "absent"}}

CategoryOptions ==
  {o @@ OptStr("sort", so) @@ OptBool("is_active", ia) :
     o \in PageOptions, so \in {"name", "absent"}, ia \in {"true", "absent"}}

NewsOptions ==
  {o @@ OptStr("status", st) @@ OptInt("category_id", c) @@ OptInt("author_id", a) :
     o \in PageOptions, st \in {"draft", "absent"}, c \in {-1, 1}, a \in {-1, 2}}

\* what the clients send
FullIn ==
  [kinds |-> TokenKinds, stale |-> FALSE, register |-> RegisterBodies, updateUser |-> UserUpdateBodies,
   updateProfile |-> ProfileBodies, category |-> CategoryBodies, news |-> NewsBodies,
   userIds |-> UserIds, catIds |-> CatIds, newsIds |-> NewsIds,
   userQueries |-> {OptStr("order", o) : o \in {"asc", "bogus", "absent"}},
   categoryQueries |-> PageQueries, newsQueries |-> PageQueries,
   searchQueries |-> SearchQueries, latestQueries |-> PageQueries,
   userOptions |-> UserOptions, categoryOptions |-> CategoryOptions,
   newsOptions |-> NewsOptions]

UserRow(username, email, role) ==
  [username |-> username, email |-> email, first_name |-> "NULL", password |-> "hash",
   role |-> role, is_active |-> TRUE, created_at |-> "t0"]

CategoryRow(name, slug, is_active) ==
  [name |-> name, slug |-> slug, is_active |-> is_active, created_at |-> "t0"]

NewsRow(slug, author) ==
  [title |-> slug, content |-> <<"c">>, slug |-> slug, status |-> "draft", category_id |-> 0, author_id |-> author,
   published_at |-> FALSE, created_at |-> "t0"]

EmptyTable == [i \in {} |-> NoRow]

\* an administrator, alone or with a second account of any role
InitUsers ==
  {[i \in {1} |-> UserRow("u1", "e1", "admin")]} \cup
  {[i \in {1, 2} |-> IF i = 1 THEN UserRow("u1", "e1", "admin") ELSE UserRow("u2", "e2", ro)] :
     ro \in Roles}

\* no article, or one draft written by one of the accounts
InitNews(us) ==
  {EmptyTable} \cup {[i \in {1} |-> NewsRow(<<"a">>, a)] : a \in DOMAIN us}

InitCategories ==
  {EmptyTable, [i \in {1} |-> CategoryRow(<<"a">>, <<"a">>, TRUE)]}

\* AUTOINCREMENT: the id after the largest one in use
NextId(tbl) == Cardinality(DOMAIN tbl) + 1

InitOf(U, C) ==
  /\ users \in U
  /\ categories \in C
  /\ news \in InitNews(users)
  /\ nextUserId = NextId(users)
  /\ nextCatId = NextId(categories)
  /\ nextNewsId = NextId(news)
  /\ reqs = [r \in Reqs |-> Idle]

Init == InitOf(InitUsers, InitCategories)

UserActions(r, in) ==
  \/ Recv_register(r, in) \/ Register_insert(r) \/ Register_reread(r)
  \/ Recv_createUser(r, in) \/ CreateUser_check(r) \/ CreateUser_insert(r) \/ CreateUser_reread(r)
  \/ Recv_updateUser(r, in) \/ UpdateUser_find(r) \/ UpdateUser_check(r)
  \/ UpdateUser_update(r) \/ UpdateUser_reread(r)
  \/ Recv_updateProfile(r, in) \/ UpdateProfile_check(r) \/ UpdateProfile_update(r)
  \/ UpdateProfile_reread(r)
  \/ Recv_deleteUser(r, in) \/ DeleteUser_find(r) \/ DeleteUser_delete(r)
  \/ Recv_toggleUserStatus(r, in) \/ ToggleUserStatus_find(r) \/ ToggleUserStatus_update(r)
  \/ ToggleUserStatus_reread(r)
  \/ Recv_resetPassword(r, in) \/ ResetPassword_find(r) \/ ResetPassword_update(r)
  \/ Recv_getAllUsers(r, in) \/ UserFindAll_count(r) \/ UserFindAll_select(r)
  \/ Recv_getUserById(r, in) \/ GetUserById_find(r)

CategoryActions(r, in) ==
  \/ Recv_createCategory(r, in) \/ CreateCategory_check(r) \/ CreateCategory_insert(r)
  \/ CreateCategory_reread(r)
  \/ Recv_updateCategory(r, in) \/ UpdateCategory_find(r) \/ UpdateCategory_check(r)
  \/ UpdateCategory_update(r) \/ UpdateCategory_reread(r)
  \/ Recv_deleteCategory(r, in) \/ DeleteCategory_find(r) \/ DeleteCategory_delete(r)
  \/ Recv_toggleCategoryStatus(r, in) \/ ToggleCategoryStatus_find(r)
  \/ ToggleCategoryStatus_update(r) \/ ToggleCategoryStatus_reread(r)

NewsActions(r, in) ==
  \/ Recv_createNews(r, in) \/ CreateNews_slugcheck(r) \/ CreateNews_catcheck(r)
  \/ CreateNews_insert(r) \/ CreateNews_reread(r)
  \/ Recv_updateNews(r, in) \/ UpdateNews_find(r) \/ UpdateNews_slugcheck(r)
  \/ UpdateNews_catcheck(r) \/ UpdateNews_update(r) \/ UpdateNews_reread(r)
  \/ Recv_deleteNews(r, in) \/ DeleteNews_find(r) \/ DeleteNews_delete(r)

\* the whole API, requests interleaving at their awaits
Next ==
  \E r \in Reqs :
    UserActions(r, FullIn) \/ CategoryActions(r, FullIn) \/ NewsActions(r, FullIn) \/ Forget(r)

Spec == Init /\ [][Next]_vars

\* the user routes, one request at a time
InitUsersOnly == InitOf(InitUsers, {EmptyTable})

NextUsers == UserActions(1, FullIn) \/ Forget(1)

SpecUsers == InitUsersOnly /\ [][NextUsers]_vars

\* the routes behind authorize(...), one request at a time
GatedUserActions(r, in) ==
  \/ Recv_createUser(r, in) \/ CreateUser_check(r) \/ CreateUser_insert(r) \/ CreateUser_reread(r)
  \/ Recv_deleteUser(r, in) \/ DeleteUser_find(r) \/ DeleteUser_delete(r)
  \/ Recv_toggleUserStatus(r, in) \/ ToggleUserStatus_find(r) \/ ToggleUserStatus_update(r)
  \/ ToggleUserStatus_reread(r)
  \/ Recv_resetPassword(r, in) \/ ResetPassword_find(r) \/ ResetPassword_update(r)
  \/ Recv_getAllUsers(r, in) \/ UserFindAll_count(r) \/ UserFindAll_select(r)
  \/ Recv_getUserById(r, in) \/ GetUserById_find(r)

GateIn ==
  [FullIn EXCEPT !.register = {OptStr("username", "u2") @@ OptStr("email", "e2")
                                 @@ OptStr("password", p) : p \in {"pw", "absent"}},
                 !.category = {OptSeq("name", n) @@ OptBool("is_active", ia) :
                                 n \in {<<"a">>, <<"b">>, <<>>}, ia \in {"false", "absent"}}]

NextGate == GatedUserActions(1, GateIn) \/ CategoryActions(1, GateIn) \/ Forget(1)

SpecGate == Init /\ [][NextGate]_vars

\* the news routes, one request at a time
NewsIn ==
  [FullIn EXCEPT !.news =
     {OptSeq("title", t) @@ OptSeq("content", c) @@ OptStr("status", st)
        @@ OptInt("category_id", cv) :
        t \in {<<"a">>, <<"b">>, <<>>}, c \in {<<"c">>, <<>>},
        st \in {"published", "bogus", "absent"}, cv \in {-1, 1}}]

NextNews == NewsActions(1, NewsIn) \/ Forget(1)

SpecNews == Init /\ [][NextNews]_vars

\* the creating and updating routes, requests interleaving at their awaits
RaceIn ==
  [kinds |-> {"good"}, stale |-> FALSE,
   register |-> {[username |-> "u2", email |-> "e2", password |-> "pw"]},
   updateUser |-> {[username |-> "u2"]},
   updateProfile |-> {[username |-> "u2", email |-> "e1"]},
   category |-> {[name |-> <<"a">>], [name |-> <<"A">>], [name |-> <<"b">>, slug |-> <<"a">>]},
   news |-> {[title |-> <<"a">>, content |-> <<"c">>], [title |-> <<"A", "!">>, content |-> <<"c">>],
             [title |-> <<"b">>, content |-> <<"c">>, category_id |-> 1]},
   userIds |-> {1, 2}, catIds |-> {1, 2}, newsIds |-> {1, 2}]

UserWriteOps == {"register", "createUser", "updateUser", "updateProfile"}
CategoryWriteOps == {"createCategory", "updateCategory"}
NewsWriteOps == {"createNews", "updateNews"}

\* the clients of one run write one table: a request of the family ops
\* arrives only while every other request is of that family and the other
\* two tables are as they started
OneTable(ops) ==
  /\ \A q \in Reqs : reqs[q].pc # "idle" => reqs[q].op \in ops
  /\ ops # UserWriteOps => nextUserId = 2 /\ users[1].username = "u1" /\ users[1].email = "e1"
  /\ ops # CategoryWriteOps => nextCatId = 1
  /\ ops # NewsWriteOps => nextNewsId = 1

RaceArrivals(r, in) ==
  \/ OneTable(UserWriteOps) /\ Recv_register(r, in)
  \/ OneTable(UserWriteOps) /\ Recv_createUser(r, in)
  \/ OneTable(UserWriteOps) /\ Recv_updateUser(r, in)
  \/ OneTable(UserWriteOps) /\ Recv_updateProfile(r, in)
  \/ OneTable(CategoryWriteOps) /\ Recv_createCategory(r, in)
  \/ OneTable(CategoryWriteOps) /\ Recv_updateCategory(r, in)
  \/ OneTable(NewsWriteOps) /\ Recv_createNews(r, in)
  \/ OneTable(NewsWriteOps) /\ Recv_updateNews(r, in)

WriteSteps(r) ==
  \/ Register_insert(r) \/ Register_reread(r)
  \/ CreateUser_check(r) \/ CreateUser_insert(r) \/ CreateUser_reread(r)
  \/ UpdateUser_find(r) \/ UpdateUser_check(r) \/ UpdateUser_update(r) \/ UpdateUser_reread(r)
  \/ UpdateProfile_check(r) \/ UpdateProfile_update(r) \/ UpdateProfile_reread(r)
  \/ CreateCategory_check(r) \/ CreateCategory_insert(r) \/ CreateCategory_reread(r)
  \/ UpdateCategory_find(r) \/ UpdateCategory_check(r) \/ UpdateCategory_update(r)
  \/ UpdateCategory_reread(r)
  \/ CreateNews_slugcheck(r) \/ CreateNews_catcheck(r) \/ CreateNews_insert(r)
  \/ CreateNews_reread(r)
  \/ UpdateNews_find(r) \/ UpdateNews_slugcheck(r) \/ UpdateNews_catcheck(r)
  \/ UpdateNews_update(r) \/ UpdateNews_reread(r)

InitRace == InitOf({[i \in {1} |-> UserRow("u1", "e1", "admin")]}, {EmptyTable})

NextRace == \E r \in Reqs : RaceArrivals(r, RaceIn) \/ WriteSteps(r) \/ Forget(r)

SpecRace == InitRace /\ [][NextRace]_vars

\* updates of one article's status and title, interleaving at their awaits
StampIn ==
  [FullIn EXCEPT !.kinds = {"good"},
                 !.news = {[status |-> "published"], [status |-> "archived"],
                           [status |-> "draft"], [title |-> <<"b">>],
                           [category_id |-> 1]},
                 !.newsIds = {1}]

StampActions(r, in) ==
  \/ Recv_updateNews(r, in) \/ UpdateNews_find(r) \/ UpdateNews_slugcheck(r)
  \/ UpdateNews_catcheck(r) \/ UpdateNews_update(r) \/ UpdateNews_reread(r)

NextStamp == \E r \in Reqs : StampActions(r, StampIn) \/ Forget(r)

\* an administrator, one category and one draft
InitStamp ==
  /\ InitOf({[i \in {1} |-> UserRow("u1", "e1", "admin")]},
            {[i \in {1} |-> CategoryRow(<<"a">>, <<"a">>, TRUE)]})
  /\ DOMAIN news = {1}

SpecStamp == InitStamp /\ [][NextStamp]_vars

\* the routes that create and drop references between the tables
RefIn ==
  [FullIn EXCEPT !.kinds = {"good"},
                 !.news = {[title |-> <<"b">>, content |-> <<"c">>, category_id |-> 1],
                           [title |-> <<"b">>, content |-> <<"c">>],
                           [category_id |-> 1], [category_id |-> 2]},
                 !.userIds = {1, 2}, !.catIds = {1, 2}, !.newsIds = {1, 2}]

RefActions(r, in) ==
  \/ Recv_createNews(r, in) \/ CreateNews_slugcheck(r) \/ CreateNews_catcheck(r)
  \/ CreateNews_insert(r) \/ CreateNews_reread(r)
  \/ Recv_updateNews(r, in) \/ UpdateNews_find(r) \/ UpdateNews_slugcheck(r)
  \/ UpdateNews_catcheck(r) \/ UpdateNews_update(r) \/ UpdateNews_reread(r)
  \/ Recv_deleteCategory(r, in) \/ DeleteCategory_find(r) \/ DeleteCategory_delete(r)
  \/ Recv_deleteUser(r, in) \/ DeleteUser_find(r) \/ DeleteUser_delete(r)

\* one request at a time
NextRefsSeq == RefActions(1, RefIn) \/ Forget(1)

SpecRefsSeq == Init /\ [][NextRefsSeq]_vars

\* requests interleaving at their awaits
RefRaceIn ==
  [RefIn EXCEPT !.news = {[title |-> <<"b">>, content |-> <<"c">>, category_id |-> 1]},
                !.userIds = {2}, !.catIds = {1}, !.newsIds = {1}]

NextRefs == \E r \in Reqs : RefActions(r, RefRaceIn) \/ Forget(r)

\* an administrator, an author with one draft, and one category
InitRefs ==
  /\ InitOf({[i \in {1, 2} |-> IF i = 1 THEN UserRow("u1", "e1", "admin")
                                      ELSE UserRow("u2", "e2", "user")]},
            {[i \in {1} |-> CategoryRow(<<"a">>, <<"a">>, TRUE)]})
  /\ DOMAIN news = {1} /\ news[1].author_id = 2

SpecRefs == InitRefs /\ [][NextRefs]_vars

\* every route, one request at a time, with bodies the schemas accept and
\* bodies they refuse
FrameIn ==
  [FullIn EXCEPT !.kinds = {"good", "none"},
                 !.register = {[username |-> "u2", email |-> "e2", password |-> "pw"],
                               [username |-> "u2", email |-> "e2"]},
                 !.updateUser = {[username |-> "u2"], [email |-> "e1"], [role |-> "bogus"]},
                 !.updateProfile = {[username |-> "u2", email |-> "e1"], [email |-> "e2"]},
                 !.category = {[name |-> <<"a">>], [name |-> <<"b">>, slug |-> <<"a">>],
                               EmptyObj},
                 !.news = {[title |-> <<"a">>, content |-> <<"c">>],
                           [title |-> <<"b">>, content |-> <<"c">>, category_id |-> 2],
                           [status |-> "bogus"]},
                 !.userIds = {0, 1, 2}, !.catIds = {0, 1}, !.newsIds = {0, 1},
                 !.userQueries = {EmptyObj}]

NextFrame ==
  UserActions(1, FrameIn) \/ CategoryActions(1, FrameIn) \/ NewsActions(1, FrameIn) \/ Forget(1)

SpecFrame == Init /\ [][NextFrame]_vars

\* updates of the caller's own profile, one request at a time, with every
\* subset of username, email and first_name
ProfileIn ==
  [FullIn EXCEPT !.kinds = {"good"},
                 !.updateProfile =
                   {OptStr("username", u) @@ OptStr("email", e) @@ OptStr("first_name", f) :
                      u \in {"u3", "u1", "absent"}, e \in {"e3", "absent"},
                      f \in {"f", "g", "absent"}}]

NextProfile ==
  \/ Recv_updateProfile(1, ProfileIn) \/ UpdateProfile_check(1) \/ UpdateProfile_update(1)
  \/ UpdateProfile_reread(1) \/ Forget(1)

SpecProfile == InitUsersOnly /\ [][NextProfile]_vars

\* optionalAuth against accounts that an administrator deactivates and
\* deletes, one request at a time
OptionalIn == [FullIn EXCEPT !.userIds = {1, 2}]

NextOptional ==
  \/ Run_optionalAuth(1, OptionalIn)
  \/ Recv_deleteUser(1, OptionalIn) \/ DeleteUser_find(1) \/ DeleteUser_delete(1)
  \/ Recv_toggleUserStatus(1, OptionalIn) \/ ToggleUserStatus_find(1)
  \/ ToggleUserStatus_update(1) \/ ToggleUserStatus_reread(1)
  \/ Forget(1)

SpecOptional == InitUsersOnly /\ [][NextOptional]_vars

\* generateSlug on every text of up to SlugTextLen characters of a small
\* alphabet and on the documented example, with the limit 500 and with the
\* short limit SlugCut, and the two creating routes that fall back on it
SlugTextLen == 3
SlugCut == 2
SlugAlphabet == {"a", "A", "0", " ", "-", "_", "!"}
BreakingTechNews ==
  <<"B", "r", "e", "a", "k", "i", "n", "g", " ", "T", "e", "c", "h", " ",
    "N", "e", "w", "s", "!">>
SlugTexts ==
  UNION {[1..k -> SlugAlphabet] : k \in 0..SlugTextLen} \cup {BreakingTechNews}

SlugCategoryBodies ==
  {[name |-> <<"A", "!", " ", "b">>],
   [name |-> <<"b">>, slug |-> <<"A", " ", "!">>]}
SlugNewsBodies ==
  {[title |-> <<"A", "_", "_", "0">>, content |-> <<"c">>, category_id |-> 1],
   [title |-> <<"b">>, content |-> <<"c">>, slug |-> <<"-", "A", "!">>]}

SlugIn ==
  [FullIn EXCEPT !.kinds = {"good"}, !.category = SlugCategoryBodies, !.news = SlugNewsBodies]
  @@ [texts |-> SlugTexts, maxLens |-> {SlugMaxLen, SlugCut}]

InitSlug ==
  /\ users = [i \in {1} |-> UserRow("u1", "e1", "admin")]
  /\ categories \in InitCategories
  /\ news = EmptyTable
  /\ nextUserId = NextId(users)
  /\ nextCatId = NextId(categories)
  /\ nextNewsId = NextId(news)
  /\ reqs = [r \in Reqs |-> Idle]

NextSlug ==
  \/ Call_generateSlug(1, SlugIn)
  \/ Recv_createCategory(1, SlugIn) \/ CreateCategory_check(1) \/ CreateCategory_insert(1)
  \/ CreateCategory_reread(1)
  \/ Recv_createNews(1, SlugIn) \/ CreateNews_slugcheck(1) \/ CreateNews_catcheck(1)
  \/ CreateNews_insert(1) \/ CreateNews_reread(1)
  \/ Forget(1)

SpecSlug == InitSlug /\ [][NextSlug]_vars

\* role changes by updateUser followed by requests whose tokens were
\* signed with any earlier role, one request at a time
StaleIn ==
  [FullIn EXCEPT !.kinds = {"good"}, !.stale = TRUE,
                 !.updateUser = {[role |-> ro] : ro \in Roles}
                                  \cup {[role |-> "user", username |-> "u2"]},
                 !.category = {[name |-> <<"b">>]},
                 !.userIds = {1, 2}, !.newsIds = {1}]

NextStale ==
  \/ Recv_updateUser(1, StaleIn) \/ UpdateUser_find(1) \/ UpdateUser_check(1)
  \/ UpdateUser_update(1) \/ UpdateUser_reread(1)
  \/ Recv_deleteUser(1, StaleIn) \/ DeleteUser_find(1) \/ DeleteUser_delete(1)
  \/ Recv_createCategory(1, StaleIn) \/ CreateCategory_check(1) \/ CreateCategory_insert(1)
  \/ CreateCategory_reread(1)
  \/ Recv_deleteNews(1, StaleIn) \/ DeleteNews_find(1) \/ DeleteNews_delete(1)
  \/ Forget(1)

SpecStale == InitUsersOnly /\ [][NextStale]_vars

\* the creating routes, one request at a time
CreateIn ==
  [FullIn EXCEPT !.kinds = {"good"},
                 !.register = {OptStr("username", u) @@ OptStr("email", "e2")
                                 @@ OptStr("password", "pw") @@ OptStr("role", ro) :
                                 u \in {"u2", "absent"}, ro \in {"admin", "absent"}},
                 !.category = {OptSeq("name", n) @@ OptSeq("slug", sl) :
                                 n \in {<<"a">>, <<"A", "!">>}, sl \in {<<"b">>, <<>>}},
                 !.news = {OptSeq("title", t) @@ OptSeq("content", <<"c">>)
                             @@ OptStr("status", st) @@ OptInt("category_id", cv) :
                             t \in {<<"a">>, <<"A", "!">>}, st \in {"published", "absent"},
                             cv \in {-1, 1}}]

CreateActions(r, in) ==
  \/ Recv_createUser(r, in) \/ CreateUser_check(r) \/ CreateUser_insert(r) \/ CreateUser_reread(r)
  \/ Recv_createCategory(r, in) \/ CreateCategory_check(r) \/ CreateCategory_insert(r)
  \/ CreateCategory_reread(r)
  \/ Recv_createNews(r, in) \/ CreateNews_slugcheck(r) \/ CreateNews_catcheck(r)
  \/ CreateNews_insert(r) \/ CreateNews_reread(r)

NextCreate == CreateActions(1, CreateIn) \/ Forget(1)

SpecCreate == InitOf({[i \in {1} |-> UserRow("u1", "e1", "admin")]}, InitCategories) /\ [][NextCreate]_vars

\* three articles for a store that starts filled
ListNews ==
  <<[title |-> <<"a">>, content |-> <<"c">>, slug |-> <<"a">>, status |-> "published",
     category_id |-> 1, author_id |-> 1, published_at |-> TRUE, created_at |-> "t0"],
    [title |-> <<"A", "!">>, content |-> <<"c">>, slug |-> <<"b">>, status |-> "draft",
     category_id |-> 1, author_id |-> 2, published_at |-> FALSE, created_at |-> "t0"],
    [title |-> <<"b">>, content |-> <<"c">>, slug |-> <<"b", "1">>, status |-> "published",
     category_id |-> 0, author_id |-> 2, published_at |-> TRUE, created_at |-> "t0"]>>

\* calls of updateById, one at a time, with objects that carry keys outside
\* the allow-lists
UpdateIn ==
  [userIds |-> {2, 3}, catIds |-> {1}, newsIds |-> {1, 2},
   userData |-> {[username |-> "u3", password |-> "x", created_at |-> "t1"],
                 [is_active |-> FALSE, password |-> "x"], [password |-> "x"],
                 [email |-> "e1", id |-> 3]},
   categoryData |-> {[name |-> <<"c">>, created_at |-> "t1", id |-> 3], [created_at |-> "t1"],
                     [slug |-> <<"b">>]},
   newsData |-> {[title |-> <<"c">>, author_id |-> 1, created_at |-> "t1"],
                 [status |-> "published", author_id |-> 1, id |-> 3],
                 [status |-> "draft", published_at |-> TRUE], [author_id |-> 1],
                 [published_at |-> TRUE], [slug |-> <<"a">>]}]

UpdateActions(r, in) ==
  \/ Call_updateById(r, in)
  \/ UpdateUser_update(r) \/ UpdateUser_reread(r)
  \/ UpdateCategory_update(r) \/ UpdateCategory_reread(r)
  \/ UpdateNews_update(r) \/ UpdateNews_reread(r)

NextUpdate == UpdateActions(1, UpdateIn) \/ Forget(1)

\* two accounts, two categories and up to two articles
InitUpdate ==
  /\ users = [i \in {1, 2} |-> IF i = 1 THEN UserRow("u1", "e1", "admin")
                                        ELSE UserRow("u2", "e2", "user")]
  /\ categories = [i \in {1, 2} |-> IF i = 1 THEN CategoryRow(<<"a">>, <<"a">>, TRUE)
                                             ELSE CategoryRow(<<"b">>, <<"b">>, TRUE)]
  /\ \E k \in 0..2 : news = [i \in 1..k |-> ListNews[i]]
  /\ nextUserId = 3 /\ nextCatId = 3 /\ nextNewsId = NextId(news)
  /\ reqs = [r \in Reqs |-> Idle]

SpecUpdate == InitUpdate /\ [][NextUpdate]_vars

\* the list routes and calls, one at a time, over a store that no request
\* changes
ListIn == [FullIn EXCEPT !.kinds = {"good", "none"}, !.userQueries = PageQueries]

ListActions(r, in) ==
  \/ Recv_getAllUsers(r, in) \/ UserFindAll_count(r) \/ UserFindAll_select(r)
  \/ Recv_getAllCategories(r, in) \/ CategoryFindAll_count(r) \/ CategoryFindAll_select(r)
  \/ Recv_getAllNews(r, in) \/ Recv_getPublishedNews(r, in) \/ Recv_getMyNews(r, in)
  \/ Recv_searchNews(r, in) \/ Recv_getNewsByCategory(r, in)
  \/ NewsFindAll_count(r) \/ NewsFindAll_select(r)
  \/ Recv_getLatestNews(r, in) \/ GetLatestNews_select(r)
  \/ Call_findAll(r, in) \/ Call_preset(r, in)

\* two accounts, two categories and up to three articles
InitLists ==
  /\ users = [i \in {1, 2} |-> IF i = 1 THEN UserRow("u1", "e1", "admin")
                                        ELSE UserRow("u2", "e2", "user")]
  /\ categories = [i \in {1, 2} |->
                     IF i = 1 THEN CategoryRow(<<"a">>, <<"a">>, TRUE)
                     ELSE CategoryRow(<<"b">>, <<"b">>, FALSE)]
  /\ news \in {[i \in 1..k |-> ListNews[i]] : k \in 0..Len(ListNews)}
  /\ nextUserId = NextId(users)
  /\ nextCatId = NextId(categories)
  /\ nextNewsId = NextId(news)
  /\ reqs = [r \in Reqs |-> Idle]

NextLists == ListActions(1, ListIn) \/ Forget(1)

SpecLists == InitLists /\ [][NextLists]_vars

(* ------------------------------ claims -------------------------------- *)
\* slot r receives a request in this step
Arrives(r) == reqs[r].pc = "idle" /\ reqs'[r].pc # "idle"

\* slot r answers its request in this step
Answers(r) == reqs[r].pc # "done" /\ reqs'[r].pc = "done"

\* the token is one authenticateToken accepts against the stored users
LiveIdentity(tok) ==
  tok.kind = "good" /\ tok.userId \in DOMAIN users /\ users[tok.userId].is_active

\* C1: a news row is modified by updateNews or removed by deleteNews only
\* when the caller is admin, editor or the row's author; a request of any
\* other authenticated caller on an existing row is answered 403 and leaves
\* every news row unchanged.
C1_NewsOwnership ==
  [][\A r \in Reqs :
       LET s == reqs[r]
           t == reqs'[r]
       IN /\ (t # s /\ s.op \in {"updateNews", "deleteNews"} /\ news' # news)
               => (s.user.role \in {"admin", "editor"} \/ s.user.id = news[s.id].author_id)
          /\ (Answers(r) /\ t.op \in {"updateNews", "deleteNews"} /\ t.user # NoUser
                /\ t.id \in DOMAIN news /\ t.user.role \notin {"admin", "editor"}
                /\ t.user.id # news[t.id].author_id)
               => (t.status = 403 /\ news' = news)]_vars

\* C2: an updateNews request on an existing article by a caller of role
\* user who is not its author is answered 403 whatever its body.
C2_NonOwnerAlwaysForbidden ==
  \A r \in Reqs :
    (/\ reqs[r].op = "updateNews" /\ reqs[r].pc = "done"
     /\ reqs[r].user.role = "user"
     /\ reqs[r].id \in DOMAIN news
     /\ news[reqs[r].id].author_id # reqs[r].user.id)
      => reqs[r].status = 403

\* C3: updateUser changes a user row only when the caller is that user or
\* has role admin or editor; a caller of role user who targets another
\* existing user with a body the schema accepts is answered 403 and the
\* target row is unchanged.
C3_UpdateUserGate ==
  [][\A r \in Reqs :
       LET s == reqs[r]
           t == reqs'[r]
       IN /\ (t # s /\ s.op = "updateUser" /\ users' # users)
               => (s.user.id = s.id \/ s.user.role \in {"admin", "editor"})
          /\ (Answers(r) /\ t.op = "updateUser" /\ t.user.role = "user"
                /\ t.id \in DOMAIN users /\ t.id # t.user.id /\ t.msg # "Validation error")
               => (t.status = 403 /\ users' = users)]_vars

\* C4: a role-gated route runs its handler only for a caller whose role is
\* on the route's list; without a valid identity the answer is 401, with a
\* role off the list it is 403, and in both cases no table changes.
GatedRoles(op) ==
  CASE op \in {"createUser", "deleteUser", "toggleUserStatus", "resetPassword"} -> {"admin"}
    [] op \in {"getAllUsers", "getUserById", "createCategory", "updateCategory",
               "toggleCategoryStatus"} -> {"admin", "editor"}
    [] op = "deleteCategory" -> {"admin"}
    [] OTHER -> Roles

GatedOps ==
  {"createUser", "deleteUser", "toggleUserStatus", "resetPassword", "getAllUsers",
   "getUserById", "createCategory", "updateCategory", "toggleCategoryStatus", "deleteCategory"}

C4_RoleGate ==
  [][\A r \in Reqs :
       LET s == reqs[r]
           t == reqs'[r]
       IN (t # s /\ t.op \in GatedOps) =>
            IF Arrives(r)
            THEN IF ~LiveIdentity(t.tok)
                 THEN t.pc = "done" /\ t.status = 401 /\ tables' = tables
                 ELSE IF users[t.tok.userId].role \notin GatedRoles(t.op)
                      THEN t.pc = "done" /\ t.status = 403 /\ tables' = tables
                      ELSE t.status \notin {401, 403}
            ELSE s.pc = "done" \/ s.user.role \in GatedRoles(s.op)]_vars

C4_Witness ==
  \E r \in Reqs :
    /\ reqs[r].op = "deleteCategory" /\ reqs[r].pc = "done" /\ reqs[r].status = 403
    /\ reqs[r].user.role = "editor" /\ reqs[r].id \in DOMAIN categories

\* C5: a request passes authenticateToken only if its token verifies and,
\* when it arrives, the token's user exists and is active; otherwise it is
\* answered 401 and changes nothing.
C5_LiveIdentityOnly ==
  [][\A r \in Reqs :
       LET t == reqs'[r]
       IN (Arrives(r) /\ t.op # "register") =>
            IF LiveIdentity(t.tok)
            THEN t.status # 401 /\ t.user.id = t.tok.userId
            ELSE t.pc = "done" /\ t.status = 401 /\ tables' = tables]_vars

C5_Witness ==
  \E r \in Reqs :
    /\ reqs[r].pc = "done" /\ reqs[r].status = 401 /\ reqs[r].tok.kind = "good"
    /\ reqs[r].tok.userId \in DOMAIN users /\ ~users[reqs[r].tok.userId].is_active

\* C6: no two user rows share a username or an email, no two category
\* rows share a name or a slug, no two news rows share a slug.
C6_NaturalKeysUnique ==
  /\ \A a, b \in DOMAIN users :
       a # b => users[a].username # users[b].username /\ users[a].email # users[b].email
  /\ \A a, b \in DOMAIN categories :
       a # b => categories[a].name # categories[b].name /\ categories[a].slug # categories[b].slug
  /\ \A a, b \in DOMAIN news : a # b => news[a].slug # news[b].slug

\* two requests both passed the pre-check and the second insert was refused
C6_Witness ==
  \E r \in Reqs :
    /\ reqs[r].op \in {"register", "createUser"} /\ reqs[r].pc = "done" /\ reqs[r].status = 500
    /\ \E u \in DOMAIN users : users[u].username = reqs[r].body.username

\* two answered create requests of one kind that carry the same natural key
SameNaturalKey(a, b) ==
  \/ /\ a.op \in {"register", "createUser"} /\ b.op \in {"register", "createUser"}
     /\ Has(a.body, "username") /\ Has(b.body, "username")
     /\ a.body.username = b.body.username \/ a.body.email = b.body.email
  \/ /\ a.op = "createCategory" /\ b.op = "createCategory"
     /\ Has(a.body, "slug") /\ Has(b.body, "slug")
     /\ a.body.name = b.body.name \/ a.body.slug = b.body.slug
  \/ /\ a.op = "createNews" /\ b.op = "createNews"
     /\ Has(a.body, "slug") /\ Has(b.body, "slug")
     /\ a.body.slug = b.body.slug

\* C7: of two create requests with the same natural key neither is answered
\* 500 and they are never both answered 201.
C7_OneWinnerOneConflict ==
  \A r, q \in Reqs :
    (r # q /\ reqs[r].pc = "done" /\ reqs[q].pc = "done" /\ SameNaturalKey(reqs[r], reqs[q]))
      => /\ reqs[r].status \in {201, 400} /\ reqs[q].status \in {201, 400}
         /\ ~(reqs[r].status = 201 /\ reqs[q].status = 201)

\* C8: deleteUser and toggleUserStatus aimed at the caller's own id are
\* answered without success and leave users and news unchanged.
C8_NoSelfDeleteOrToggle ==
  [][\A r \in Reqs :
       LET t == reqs'[r]
       IN (t.op \in {"deleteUser", "toggleUserStatus"} /\ t.user # NoUser /\ t.user.id = t.id)
            => /\ t.pc = "done" /\ t.status \in {400, 403}
               /\ Arrives(r) => users' = users /\ news' = news]_vars

C8_Witness ==
  \E r \in Reqs :
    /\ reqs[r].op = "deleteUser" /\ reqs[r].pc = "done" /\ reqs[r].status = 400
    /\ reqs[r].user.role = "admin" /\ reqs[r].user.id = reqs[r].id
    /\ \E n \in DOMAIN news : news[n].author_id = reqs[r].id

\* C9: no step of a toggleUserStatus, updateUser or updateProfile request
\* whose caller is its target changes that user's is_active.
C9_OwnStatusUntouched ==
  [][\A r \in Reqs :
       LET s == reqs[r]
       IN (/\ reqs'[r] # s /\ s.op \in {"toggleUserStatus", "updateUser", "updateProfile"}
           /\ s.user # NoUser /\ s.user.id = s.id /\ s.id \in DOMAIN users)
            => (s.id \in DOMAIN users' /\ users'[s.id].is_active = users[s.id].is_active)]_vars

\* C10: no step of an updateUser or updateProfile request whose caller is
\* its target and is not admin changes that user's role.
C10_OwnRoleUntouched ==
  [][\A r \in Reqs :
       LET s == reqs[r]
       IN (/\ reqs'[r] # s /\ s.op \in {"updateUser", "updateProfile"}
           /\ s.user # NoUser /\ s.user.id = s.id /\ s.user.role # "admin"
           /\ s.id \in DOMAIN users)
            => (s.id \in DOMAIN users' /\ users'[s.id].role = users[s.id].role)]_vars

\* the guard dropped the only key of the payload, so the update had nothing
\* to write
C10_Witness ==
  \E r \in Reqs :
    /\ reqs[r].op = "updateUser" /\ reqs[r].pc = "done" /\ reqs[r].status = 500
    /\ reqs[r].user.id = reqs[r].id /\ reqs[r].user.role = "editor"
    /\ reqs[r].body = [role |-> "admin"]
    /\ reqs[r].id \in DOMAIN users /\ users[reqs[r].id].role = "editor"

\* C11: the UPDATE of an updateNews request that sets status to published
\* leaves the row's published_at non-null, one that sets status to archived
\* or draft leaves it null, and one whose payload has no status key leaves
\* it as it was.
C11_PublishedAtFollowsUpdate ==
  [][\A r \in Reqs :
       LET s == reqs[r]
       IN (/\ s.op = "updateNews" /\ s.pc = "update" /\ reqs'[r].pc = "reread"
           /\ s.id \in DOMAIN news)
            => /\ s.id \in DOMAIN news'
               /\ (Has(s.body, "status") /\ s.body.status = "published")
                    => news'[s.id].published_at
               /\ (Has(s.body, "status") /\ s.body.status \in {"archived", "draft"})
                    => ~news'[s.id].published_at
               /\ ~Has(s.body, "status")
                    => news'[s.id].published_at = news[s.id].published_at]_vars

\* one request published the article, a later one archived it
C11_Witness ==
  \E r, q \in Reqs :
    /\ reqs[r].op = "updateNews" /\ reqs[r].pc = "done" /\ reqs[r].status = 200
    /\ reqs[r].body = [status |-> "published"]
    /\ reqs[q].op = "updateNews" /\ reqs[q].pc = "done" /\ reqs[q].status = 200
    /\ reqs[q].body = [status |-> "archived"] /\ reqs[q].id = reqs[r].id
    /\ reqs[q].id \in DOMAIN news /\ news[reqs[q].id].status = "archived"
    /\ ~news[reqs[q].id].published_at

\* C12: a news row has a non-null published_at exactly when its status is
\* published.
C12_PublishedAtIffPublished ==
  \A n \in DOMAIN news : news[n].published_at <=> (news[n].status = "published")

\* C13: with one request at a time, deleteCategory on a category that some
\* news row references is answered 400 and leaves categories and news as
\* they were, and a category row is removed only when no news row
\* references it.
C13_ReferencedCategoryKept ==
  [][\A r \in Reqs :
       LET s == reqs[r]
       IN (s.op = "deleteCategory" /\ reqs'[r] # s /\ s.pc \in {"find", "delete"})
            => /\ (s.id \in DOMAIN categories /\ NewsCount(s.id) > 0)
                    => /\ reqs'[r].pc = "done" /\ reqs'[r].status = 400
                       /\ categories' = categories /\ news' = news
               /\ categories' # categories => NewsCount(s.id) = 0]_vars

C13_Witness ==
  \E r \in Reqs :
    /\ reqs[r].op = "deleteCategory" /\ reqs[r].pc = "done" /\ reqs[r].status = 400
    /\ reqs[r].msg = "Cannot delete category"
    /\ reqs[r].id \in DOMAIN categories /\ NewsCount(reqs[r].id) > 0

\* C14: every news row's author_id names an existing user and its
\* category_id is null or names an existing category; a successful
\* deleteUser removes exactly the news rows written by the deleted user.
C14_ReferencesResolve ==
  /\ [](\A n \in DOMAIN news :
          /\ news[n].author_id \in DOMAIN users
          /\ news[n].category_id = 0 \/ news[n].category_id \in DOMAIN categories)
  /\ [][\A r \in Reqs :
          (reqs[r].op = "deleteUser" /\ Answers(r) /\ reqs'[r].status = 200)
            => /\ reqs[r].id \notin DOMAIN users'
               /\ news' = Remove(news, {n \in DOMAIN news : news[n].author_id = reqs[r].id})]_vars

\* the author was deleted between a createNews request's checks and its
\* INSERT, which the foreign key refused
C14_Witness ==
  \E r, q \in Reqs :
    /\ reqs[r].op = "createNews" /\ reqs[r].pc = "done" /\ reqs[r].status = 500
    /\ reqs[r].user.id \notin DOMAIN users
    /\ reqs[q].op = "deleteUser" /\ reqs[q].pc = "done" /\ reqs[q].status = 200
    /\ reqs[q].id = reqs[r].user.id

\* the rows a finished list call's filter matches
Matching(s) ==
  CASE s.op = "User.findAll" -> UserWhere(s.body)
    [] s.op = "Category.findAll" -> CategoryWhere(s.body)
    [] OTHER -> NewsWhere(s.body)

\* C15: every call of User.findAll, Category.findAll, News.findAll or a
\* preset with page >= 1 and limit >= 1 returns a pagination whose total is
\* the number of rows its filter matches and whose pages is
\* ceil(total / limit), and at most limit items, total - (page - 1) * limit
\* of them on the last page.
C15_PaginationConsistent ==
  \A r \in Reqs :
    LET s == reqs[r]
        page == OptionOr(s.body, "page", 1)
        limit == OptionOr(s.body, "limit", 10)
    IN (/\ s.pc = "done"
        /\ s.op \in {"User.findAll", "Category.findAll", "News.findAll", "News.findPublished",
                      "News.findByCategory", "News.findByAuthor"}
        /\ page >= 1 /\ limit >= 1)
         => /\ s.data # NoRow
            /\ s.data.pagination.total = Cardinality(Matching(s))
            /\ s.data.pagination.pages * limit >= s.data.pagination.total
            /\ (s.data.pagination.pages - 1) * limit < s.data.pagination.total
                 \/ (s.data.pagination.pages = 0 /\ s.data.pagination.total = 0)
            /\ Len(s.data.items) <= limit
            /\ page = s.data.pagination.pages
                 => Len(s.data.items) = s.data.pagination.total - (page - 1) * limit

\* C16: the options a list request hands to the store have page >= 1 and
\* limit in 1..100 (limit in 1..20 for the latest list).
C16_PageAndLimitInRange ==
  \A r \in Reqs :
    LET s == reqs[r]
    IN /\ (/\ s.op \in {"getAllUsers", "getAllCategories", "getAllNews", "getPublishedNews",
                          "getMyNews", "getNewsByCategory", "searchNews"}
            /\ s.pc \in {"count", "select"})
             => s.body.page >= 1 /\ s.body.limit >= 1 /\ s.body.limit <= 100
       /\ (s.op = "getLatestNews" /\ s.pc = "latest")
             => s.body.limit >= 1 /\ s.body.limit <= 20

\* C17: every item of a published list has status published, every item
\* of a by-author list has the given author, every item of a by-category
\* list has the given category, whatever options the caller passed.
C17_PresetScopeWins ==
  \A r \in Reqs :
    LET s == reqs[r]
    IN (s.pc = "done" /\ s.status = 200 /\ s.op \in NewsListOps)
         => \A i \in 1..Len(s.data.items) :
              LET row == news[s.data.items[i]]
              IN /\ s.op \in {"News.findPublished", "getPublishedNews"}
                      => row.status = "published"
                 /\ s.op = "News.findByAuthor" => row.author_id = s.id
                 /\ s.op = "getMyNews" => row.author_id = s.user.id
                 /\ s.op = "News.findByCategory" => row.category_id = s.id

\* the caller asked the published list for drafts and got a published row
C17_Witness ==
  \E r \in Reqs :
    /\ reqs[r].op = "News.findPublished" /\ reqs[r].pc = "done"
    /\ Has(reqs[r].query, "status") /\ reqs[r].query.status = "draft"
    /\ Len(reqs[r].data.items) > 0
    /\ \E n \in DOMAIN news : news[n].status = "draft"

\* C18: a by-category list request that names an existing category is
\* answered 200 with the page of the rows of that category, and one
\* answered 404 names no existing category.
C18_ByCategoryAnswered ==
  \A r \in Reqs :
    LET s == reqs[r]
        c == s.query.categoryId
    IN (s.op = "getNewsByCategory" /\ s.pc = "done")
         => /\ (c >= 1 /\ c \in DOMAIN categories)
                 => /\ s.status = 200
                    /\ \A i \in 1..Len(s.data.items) : news[s.data.items[i]].category_id = c
                    /\ s.data.pagination.total
                         = Cardinality({n \in DOMAIN news : news[n].category_id = c})
            /\ s.status = 404 => c \notin DOMAIN categories

\* C19: the entity a create answers with is the row findById reads under
\* the new id right after, for users, categories and news, and the user
\* entity has no password field.
C19_CreateReturnsStoredRow ==
  \A r \in Reqs :
    LET s == reqs[r]
    IN (s.pc = "done" /\ s.status = 201)
         => /\ s.op = "createUser"
                 => /\ s.data # NoRow /\ s.data = UserFindById(s.id)
                    /\ "password" \notin DOMAIN s.data
                    /\ \A c \in DOMAIN s.data \ {"id"} : s.data[c] = users[s.id][c]
            /\ s.op = "createCategory"
                 => /\ s.data # NoRow /\ s.data = CategoryFindById(s.id)
                    /\ \A c \in CategoryColumns : s.data[c] = categories[s.id][c]
            /\ s.op = "createNews"
                 => /\ s.data # NoRow /\ s.data = NewsFindById(s.id)
                    /\ \A c \in NewsColumns : s.data[c] = news[s.id][c]

\* a user, a category and an article have each been created and answered
C19_Witness ==
  /\ \E r \in Reqs :
       /\ reqs[r].op = "createNews" /\ reqs[r].pc = "done" /\ reqs[r].status = 201
       /\ reqs[r].data.id = reqs[r].id /\ reqs[r].data.slug = news[reqs[r].id].slug
       /\ reqs[r].data.category_name # "NULL"
  /\ nextUserId > 2 /\ nextCatId > 1

\* C20: the UPDATE of updateById leaves every table's ids and every other
\* row as they were and changes, in its own row, only allow-listed columns
\* that updateData names, to the values it gives (and published_at of an
\* article when status is given): never password or created_at of a user,
\* created_at of a category, author_id or created_at of an article. The
\* call fails before its UPDATE exactly when updateData has no allow-listed
\* key.
C20_UpdateWritesAllowListOnly ==
  [][\A r \in Reqs :
       LET s == reqs[r]
           t == reqs'[r]
           d == s.body
       IN /\ (s.pc = "update" /\ t.pc # "update"
               /\ s.op \in {"User.updateById", "Category.updateById", "News.updateById"})
                => /\ DOMAIN users' = DOMAIN users
                   /\ DOMAIN categories' = DOMAIN categories
                   /\ DOMAIN news' = DOMAIN news
                   /\ \A u \in DOMAIN users : \A c \in UserColumns :
                        users'[u][c] # users[u][c]
                          => /\ s.op = "User.updateById" /\ u = s.id
                             /\ c \in {"username", "email", "first_name", "role", "is_active"}
                             /\ c \in DOMAIN d /\ users'[u][c] = d[c]
                   /\ \A k \in DOMAIN categories : \A c \in CategoryColumns :
                        categories'[k][c] # categories[k][c]
                          => /\ s.op = "Category.updateById" /\ k = s.id
                             /\ c \in {"name", "slug", "is_active"}
                             /\ c \in DOMAIN d /\ categories'[k][c] = d[c]
                   /\ \A n \in DOMAIN news : \A c \in NewsColumns :
                        news'[n][c] # news[n][c]
                          => /\ s.op = "News.updateById" /\ n = s.id
                             /\ \/ /\ c \in {"title", "content", "slug", "status", "category_id"}
                                   /\ c \in DOMAIN d /\ news'[n][c] = d[c]
                                \/ c = "published_at" /\ "status" \in DOMAIN d
          /\ (s.pc = "idle" /\ t.op = "User.updateById")
                => (t.pc = "done"
                      <=> DOMAIN t.body \cap {"username", "email", "first_name", "last_name",
                                              "role", "is_active"} = {})
          /\ (s.pc = "idle" /\ t.op = "Category.updateById")
                => (t.pc = "done"
                      <=> DOMAIN t.body \cap {"name", "description", "slug", "is_active"} = {})
          /\ (s.pc = "idle" /\ t.op = "News.updateById")
                => (t.pc = "done"
                      <=> DOMAIN t.body \cap {"title", "content", "summary", "slug",
                                              "featured_image", "status", "category_id"} = {})
    ]_vars

\* an update that named password and created_at beside username has
\* returned: the username is the new one, the other two are as stored
C20_Witness ==
  \E r \in Reqs :
    /\ reqs[r].op = "User.updateById" /\ reqs[r].pc = "done" /\ reqs[r].status = 200
    /\ {"username", "password", "created_at"} \subseteq DOMAIN reqs[r].body
    /\ users[reqs[r].id].username = reqs[r].body.username
    /\ users[reqs[r].id].password = "hash" /\ reqs[r].body.password # "hash"
    /\ users[reqs[r].id].created_at = "t0"

\* C21: a call of updateById whose updateData has no allow-listed key ends
\* at once with 'No valid fields to update' and leaves the three tables as
\* they were: no UPDATE is issued for it.
C21_NoFieldsNoStatement ==
  [][\A r \in Reqs :
       LET t == reqs'[r]
           allowed == CASE t.op = "User.updateById" ->
                             {"username", "email", "first_name", "last_name", "role", "is_active"}
                        [] t.op = "Category.updateById" ->
                             {"name", "description", "slug", "is_active"}
                        [] OTHER ->
                             {"title", "content", "summary", "slug", "featured_image", "status",
                              "category_id"}
       IN (/\ reqs[r].pc = "idle"
           /\ t.op \in {"User.updateById", "Category.updateById", "News.updateById"}
           /\ DOMAIN t.body \cap allowed = {})
            => /\ t.pc = "done" /\ t.status = 500 /\ t.msg = "No valid fields to update"
               /\ users' = users /\ categories' = categories /\ news' = news
    ]_vars

\* News.updateById has refused an object that names only published_at, on
\* a draft that exists
C21_Witness ==
  \E r \in Reqs :
    /\ reqs[r].op = "News.updateById" /\ reqs[r].pc = "done"
    /\ reqs[r].msg = "No valid fields to update"
    /\ reqs[r].body = [published_at |-> TRUE]
    /\ reqs[r].id \in DOMAIN news /\ ~news[reqs[r].id].published_at

\* C22: a delete request whose row is gone when its DELETE runs is answered
\* 404.
C22_GoneRowIsNotFound ==
  [][\A r \in Reqs :
       LET s == reqs[r]
           gone == CASE s.op = "deleteUser" -> s.id \notin DOMAIN users
                     [] s.op = "deleteCategory" -> s.id \notin DOMAIN categories
                     [] OTHER -> s.id \notin DOMAIN news
       IN (/\ s.op \in {"deleteUser", "deleteCategory", "deleteNews"}
           /\ s.pc = "delete" /\ reqs'[r].pc = "done" /\ gone)
            => reqs'[r].status = 404
    ]_vars

\* C23: the step that answers a request with 400, 401, 403 or 404 writes no
\* table, and no request is answered so after a statement of its own that
\* wrote one.
C23_ClientErrorWritesNothing ==
  [][\A r \in Reqs :
       LET s == reqs[r]
           t == reqs'[r]
       IN /\ (s.pc # "done" /\ t.pc = "done" /\ t.status \in {400, 401, 403, 404})
               => users' = users /\ categories' = categories /\ news' = news
          /\ (reqs'[r] # reqs[r] /\ <<users, categories, news>>' # <<users, categories, news>>)
               => /\ t.pc = "done" => t.status \notin {400, 401, 403, 404}
                  /\ t.pc # "done" => t.pc = "reread"
          /\ (s.pc = "reread" /\ t.pc = "done") => t.status \notin {400, 401, 403, 404}
    ]_vars

\* a caller who may not edit an article asked to delete it and was
\* refused; the article is still there
C23_Witness ==
  \E r \in Reqs :
    /\ reqs[r].op = "deleteNews" /\ reqs[r].pc = "done" /\ reqs[r].status = 403
    /\ reqs[r].id \in DOMAIN news
    /\ reqs[r].user.id # news[reqs[r].id].author_id

\* C24: an updateProfile request that supplies some of username, email and
\* first_name is answered 200 unless another account has the username or
\* the email, and its UPDATE sets the supplied columns and leaves every
\* other column of the caller's row, and every other row, as it was.
C24_ProfileUpdatesSuppliedOnly ==
  [][\A r \in Reqs :
       LET s == reqs[r]
           t == reqs'[r]
           supplied == {k \in DOMAIN s.body : s.body[k] # "undefined"}
       IN (s.op = "updateProfile" /\ s.pc \in {"check", "update", "reread"} /\ supplied # {})
            => /\ (t.pc = "done" /\ t.status # 200)
                    => t.status = 400 /\ t.msg = "Another user already exists"
               /\ s.pc = "update"
                    => \A u \in DOMAIN users : \A c \in UserColumns :
                         users'[u][c] = IF u = s.id /\ c \in supplied THEN s.body[c]
                                        ELSE users[u][c]
    ]_vars

\* C25: the row a register request inserts has role user and is active,
\* whatever the request body carried, and a register request that arrives
\* with a valid body whose email some stored row already has is answered
\* 400 and creates no row.
C25_RegisterDefaults ==
  [][\A r \in Reqs :
       LET s == reqs[r]
           t == reqs'[r]
       IN /\ (s.op = "register" /\ s.pc = "insert" /\ users' # users)
               => /\ DOMAIN users' = DOMAIN users \cup {t.id}
                  /\ t.id \notin DOMAIN users
                  /\ users'[t.id].role = "user"
                  /\ users'[t.id].is_active
                  /\ \A u \in DOMAIN users : users'[u] = users[u]
          /\ (s.pc = "idle" /\ t.op = "register" /\ Has(t.body, "email")
                /\ \E u \in DOMAIN users : users[u].email = t.body.email)
               => t.pc = "done" /\ t.status = 400 /\ users' = users
    ]_vars

\* a registration has been answered 201 for a username and email that the
\* client may send together with "role": "admin"; the stored row has role
\* user and is active
C25_Witness ==
  \E r \in Reqs :
    /\ reqs[r].op = "register" /\ reqs[r].pc = "done" /\ reqs[r].status = 201
    /\ reqs[r].id \in DOMAIN users
    /\ users[reqs[r].id].role = "user" /\ users[reqs[r].id].is_active
    /\ \E b \in RegisterBodies :
         /\ Has(b, "role") /\ b.role = "admin"
         /\ Has(b, "username") /\ b.username = users[reqs[r].id].username
         /\ b.email = users[reqs[r].id].email

\* C26: optionalAuth sends no response and calls next exactly once for
\* every token (none, malformed or forged, expired, naming a deleted or a
\* deactivated account) and on a store error, and it attaches req.user
\* exactly when the token verifies, the lookup succeeds and the row it
\* names exists and is active; the attached identity is that row's.
C26_OptionalAuthNeverRejects ==
  [][\A r \in Reqs :
       LET t == reqs'[r]
       IN (reqs[r].pc = "idle" /\ t.op = "optionalAuth")
            => /\ t.status = 0
               /\ t.data.nexts = 1
               /\ t.user # NoUser <=> (LiveIdentity(t.tok) /\ ~t.query.dbError)
               /\ t.user # NoUser
                    => /\ t.user.id = t.tok.userId
                       /\ t.user.role = users[t.tok.userId].role
                       /\ t.user.email = users[t.tok.userId].email
    ]_vars

\* optionalAuth has passed on, without an identity, a request whose valid
\* token names an account that is stored but deactivated
C26_Witness ==
  \E r \in Reqs :
    /\ reqs[r].op = "optionalAuth" /\ reqs[r].pc = "done"
    /\ reqs[r].tok.kind = "good" /\ ~reqs[r].query.dbError
    /\ reqs[r].tok.userId \in DOMAIN users /\ ~users[reqs[r].tok.userId].is_active
    /\ reqs[r].user = NoUser /\ reqs[r].status = 0 /\ reqs[r].data.nexts = 1

\* the characters a slug may consist of
SlugChars == {LowerLetters[i] : i \in 1..26} \cup Digits \cup {"-"}

\* C27: generateSlug of News and of Category returns a text of characters
\* from [a-z0-9-] with no two hyphens in a row, the same text for the same
\* input; generateSlug("Breaking Tech News!") is "breaking-tech-news"; and
\* the row createCategory or createNews inserts carries the slug of the
\* request body as sent when there is one, generateSlug of the name or
\* title when there is none.
C27_SlugShapeAndFallback ==
  [][\A r \in Reqs :
       LET s == reqs[r]
           t == reqs'[r]
           slug == t.data.slug
       IN /\ (s.pc = "idle" /\ t.op \in {"News.generateSlug", "Category.generateSlug"})
               => /\ \A i \in 1..Len(slug) : slug[i] \in SlugChars
                  /\ \A i \in 1..(Len(slug) - 1) : ~(slug[i] = "-" /\ slug[i + 1] = "-")
                  /\ \A q \in Reqs :
                       (reqs[q].op = t.op /\ reqs[q].body = t.body /\ reqs[q].query = t.query)
                         => reqs[q].data.slug = slug
                  /\ (t.body.text = BreakingTechNews
                        /\ (t.op = "News.generateSlug" => t.query.max = SlugMaxLen))
                       => slug = <<"b", "r", "e", "a", "k", "i", "n", "g", "-", "t", "e",
                                   "c", "h", "-", "n", "e", "w", "s">>
          /\ (s.op = "createCategory" /\ s.pc = "insert" /\ categories' # categories)
               => \E b \in SlugCategoryBodies :
                    /\ categories'[t.id].name = b.name
                    /\ categories'[t.id].slug =
                         IF Has(b, "slug") THEN b.slug ELSE CategoryGenerateSlug(b.name)
          /\ (s.op = "createNews" /\ s.pc = "insert" /\ news' # news)
               => \E b \in SlugNewsBodies :
                    /\ news'[t.id].title = b.title
                    /\ news'[t.id].slug =
                         IF Has(b, "slug") THEN b.slug ELSE NewsGenerateSlug(b.title)
    ]_vars

\* a category created from a body whose slug is no slug-shaped text is
\* stored with that slug as sent, and News.generateSlug has just returned
\* the 18 characters of the documented example's slug
C27_Witness ==
  /\ \E c \in DOMAIN categories :
       categories[c].name = <<"b">> /\ categories[c].slug = <<"A", " ", "!">>
  /\ \E r \in Reqs :
       /\ reqs[r].op = "News.generateSlug" /\ reqs[r].pc = "done"
       /\ reqs[r].body.text = BreakingTechNews
       /\ Len(reqs[r].data.slug) = 18

\* C28: with requests interleaving, the DELETE of deleteCategory removes
\* the category row only when no news row references it at that moment,
\* and no news row's category_id changes in that step.
C28_DeleteKeepsReferences ==
  [][\A r \in Reqs :
       LET s == reqs[r]
       IN (s.op = "deleteCategory" /\ s.pc = "delete" /\ reqs'[r].pc = "done"
             /\ s.id \in DOMAIN categories /\ s.id \notin DOMAIN categories')
            => /\ \A n \in DOMAIN news : news[n].category_id # s.id
               /\ \A n \in DOMAIN news :
                    n \in DOMAIN news' /\ news'[n].category_id = news[n].category_id
    ]_vars

\* C29: a request is authorized by the role its caller's row holds when
\* the request arrives, whatever role its token was signed with: req.user
\* carries the stored role, a role-gated route answers 403 exactly when the
\* stored role is off the route's list, and deleteNews on an existing
\* article answers 403 exactly when the caller is not its author and the
\* stored role is neither admin nor editor.
C29_StoredRoleDecides ==
  [][\A r \in Reqs :
       LET s == reqs[r]
           t == reqs'[r]
       IN /\ (Arrives(r) /\ t.tok.kind = "good" /\ LiveIdentity(t.tok))
               => /\ t.user.role = users[t.tok.userId].role
                  /\ t.op \in GatedOps
                       => (t.pc = "done" /\ t.status = 403)
                            <=> users[t.tok.userId].role \notin GatedRoles(t.op)
          /\ (s.op = "deleteNews" /\ s.pc = "find" /\ t # s /\ s.id \in DOMAIN news)
               => (t.pc = "done" /\ t.status = 403)
                    <=> ~(\/ users[s.tok.userId].role \in {"admin", "editor"}
                          \/ s.tok.userId = news[s.id].author_id)
    ]_vars

\* a token signed when its account was admin has been refused on
\* deleteUser (403) now that the account's row says user
C29_Witness ==
  \E r \in Reqs :
    /\ reqs[r].op = "deleteUser" /\ reqs[r].pc = "done" /\ reqs[r].status = 403
    /\ reqs[r].tok.kind = "good" /\ reqs[r].tok.role = "admin"
    /\ reqs[r].tok.userId \in DOMAIN users
    /\ users[reqs[r].tok.userId].role = "user"

\* C30: the slug News.generateSlug or Category.generateSlug returns for a
\* text neither begins nor ends with a hyphen, and generateSlug of that
\* slug is the slug again, also when the limit of News.generateSlug cuts
\* the slug short.
C30_SlugTrimmedAndIdempotent ==
  [][\A r \in Reqs :
       LET t == reqs'[r]
           slug == t.data.slug
           again == IF t.op = "News.generateSlug" THEN NewsGenerateSlug_max(slug, t.query.max)
                    ELSE CategoryGenerateSlug(slug)
       IN (reqs[r].pc = "idle" /\ t.op \in {"News.generateSlug", "Category.generateSlug"})
            => /\ slug # <<>> => (slug[1] # "-" /\ slug[Len(slug)] # "-")
               /\ again = slug
    ]_vars

====
